---- MODULE Spec2Model ----
(***************************************************************************)
(* Model of the admira-etl transform-and-reconcile engine:                 *)
(*   internal/etl/service.go   (Matcher, Metrics Calculator, Transform)    *)
(*   internal/storage          (InMemoryStorage)                           *)
(*                                                                         *)
(* Conventions.                                                            *)
(*   - A Go string is a sequence of one-character strings; "" is << >>.    *)
(*   - A float64 that holds a money amount (Cost, Amount, Revenue) is an   *)
(*     integer number of currency units; a float64 that holds a quotient   *)
(*     (CPC, CPA, CVR..., ROAS) is a reduced fraction [num, den], and a    *)
(*     quotient with den = 0 is a non-finite float (NaN or +/-Inf).        *)
(*   - A time.Time obtained from a YYYY-MM-DD literal is the number of the *)
(*     day in an order-preserving numbering of the calendar.               *)
(***************************************************************************)
EXTENDS Integers, Sequences, FiniteSets, TLC

VARIABLES
    pc,              \* position of the call under study
    ad,              \* models.AdsPerformance argument of a single-record call
    adsData,         \* models.AdsData.Performance of a transform call
    crmData,         \* models.CRMData.Opportunities of a transform call
    sinceTime,       \* sinceTime argument of transformData
    crmLookup,       \* map[CRMLookupKey][]models.Opportunity
    matching,        \* result of findMatchingOpportunities
    metrics,         \* result of calculateMetrics
    transformed,     \* result of transformData
    data,            \* InMemoryStorage.data
    ingestionTimes,  \* InMemoryStorage.ingestionTimes
    lastIngestion,   \* InMemoryStorage.lastIngestion
    now,             \* the wall clock read by time.Now()
    appended,        \* history: the dates of every record ever passed to StoreTransformedData
    appendedCount,   \* history: the number of records ever passed to StoreTransformedData
    ret,             \* the value returned by the last Store read
    config,          \* config.Config: AdsAPIURL and CRMAPIURL
    feed,            \* what the external ads and CRM APIs serve
    mu,              \* InMemoryStorage.mu, the sync.RWMutex
    call,            \* the RunIngestion calls in progress: position and locals of each
    rd,              \* the Store reads in progress: position of each
    runLog,          \* history: the RunIngestion calls that returned, in return order
    storedLog,       \* history: the records passed to append, in the order of the appends
    query,           \* arguments of the GetTransformedData call under study
    filteredData,    \* the local slice filtered of GetTransformedData
    items,           \* argument of consolidateDataByChannelAndCampaign
    consolidated,    \* result of consolidateDataByChannelAndCampaign
    http,            \* the doWithRetry call in progress: position and locals
    ctx,             \* the caller's context.Context, and when it was cancelled
    sink,            \* history: the requests the sink accepted, in order
    netLog,          \* history: the requests handed to the network, in order
    export           \* the ExportData call in progress: position and locals

vars == <<pc, ad, adsData, crmData, sinceTime, crmLookup, matching, metrics,
          transformed, data, ingestionTimes, lastIngestion, now, appended,
          appendedCount, ret, config, feed, mu, call, rd, runLog, storedLog,
          query, filteredData, items, consolidated, http, ctx, sink, netLog, export>>

pureVars == <<ad, adsData, crmData, sinceTime, crmLookup, matching, metrics, transformed>>
storeVars == <<data, ingestionTimes, lastIngestion, now, appended, appendedCount, ret>>
ingestVars == <<config, feed, mu, call, rd, runLog, storedLog>>
queryVars == <<query, filteredData>>
exportVars == <<items, consolidated>>
netVars == <<http, ctx, sink, netLog, export>>

-----------------------------------------------------------------------------
(* Strings: strings.ToLower and strings.TrimSpace                           *)

IsSpace(c) == c \in {" ", "\t", "\n", "\r"}

ToLowerChar(c) ==
    CASE c = "B" -> "b"
      [] c = "C" -> "c"
      [] c = "F" -> "f"
      [] c = "G" -> "g"
      [] c = "S" -> "s"
      [] OTHER -> c

ToLower(s) == [i \in 1..Len(s) |-> ToLowerChar(s[i])]

RECURSIVE TrimLeft(_)
TrimLeft(s) ==
    IF s = << >> THEN s
    ELSE IF IsSpace(Head(s)) THEN TrimLeft(Tail(s)) ELSE s

RECURSIVE TrimRight(_)
TrimRight(s) ==
    IF s = << >> THEN s
    ELSE IF IsSpace(s[Len(s)]) THEN TrimRight(SubSeq(s, 1, Len(s) - 1)) ELSE s

TrimSpace(s) == TrimRight(TrimLeft(s))

\* A mutant of normalizeUTM: the case is not folded.
normalizeUTM_NoLower(utm) == TrimSpace(utm)

normalizeUTM(utm) == ToLower(TrimSpace(utm))

-----------------------------------------------------------------------------
(* Matcher                                                                  *)

CRMLookupKey(c, s, m) == [UTMCampaign |-> c, UTMSource |-> s, UTMMedium |-> m]

EmptyLookup == [k \in {} |-> << >>]

\* lookup[key] = append(lookup[key], opp)
LookupAppend(lookup, key, opp) ==
    [k \in (DOMAIN lookup) \cup {key} |->
        IF k = key
        THEN Append(IF key \in DOMAIN lookup THEN lookup[key] ELSE << >>, opp)
        ELSE lookup[k]]

RECURSIVE BuildFrom(_, _)
BuildFrom(lookup, opps) ==
    IF opps = << >> THEN lookup
    ELSE LET opp == Head(opps)
             key == CRMLookupKey(normalizeUTM(opp.UTMCampaign),
                                 normalizeUTM(opp.UTMSource),
                                 normalizeUTM(opp.UTMMedium))
         IN  BuildFrom(LookupAppend(lookup, key, opp), Tail(opps))

buildCRMLookup(opps) == BuildFrom(EmptyLookup, opps)

\* A mutant of findMatchingOpportunities: the campaign-only tier is tried first.
findMatchingOpportunities_CampaignFirst(a, lookup) ==
    LET exactKey    == CRMLookupKey(normalizeUTM(a.UTMCampaign),
                                    normalizeUTM(a.UTMSource),
                                    normalizeUTM(a.UTMMedium))
        fallbackKey == CRMLookupKey(normalizeUTM(a.UTMCampaign), << >>, << >>)
        sourceKey   == CRMLookupKey(<< >>, normalizeUTM(a.UTMSource), << >>)
    IN  IF fallbackKey \in DOMAIN lookup THEN lookup[fallbackKey]
        ELSE IF exactKey \in DOMAIN lookup THEN lookup[exactKey]
        ELSE IF sourceKey \in DOMAIN lookup THEN lookup[sourceKey]
        ELSE << >>

findMatchingOpportunities(a, lookup) ==
    LET exactKey    == CRMLookupKey(normalizeUTM(a.UTMCampaign),
                                    normalizeUTM(a.UTMSource),
                                    normalizeUTM(a.UTMMedium))
        fallbackKey == CRMLookupKey(normalizeUTM(a.UTMCampaign), << >>, << >>)
        sourceKey   == CRMLookupKey(<< >>, normalizeUTM(a.UTMSource), << >>)
    IN  IF exactKey \in DOMAIN lookup THEN lookup[exactKey]
        ELSE IF fallbackKey \in DOMAIN lookup THEN lookup[fallbackKey]
        ELSE IF sourceKey \in DOMAIN lookup THEN lookup[sourceKey]
        ELSE << >>

-----------------------------------------------------------------------------
(* Metrics Calculator                                                       *)

Abs(n) == IF n < 0 THEN -n ELSE n

RECURSIVE GCD(_, _)
GCD(a, b) == IF b = 0 THEN a ELSE GCD(b, a % b)

\* The zero value of a float64 field (Metrics{} / TransformedData{}).
Zero == [num |-> 0, den |-> 1]

Sign(n) == IF n < 0 THEN -1 ELSE IF n > 0 THEN 1 ELSE 0

\* float64 division a / b of two finite values: IEEE 754 gives NaN for 0/0
\* and +/-Inf for x/0, never a panic; a finite quotient is kept exact.
FDiv(a, b) ==
    IF b = 0 THEN [num |-> Sign(a), den |-> 0]
    ELSE LET g == GCD(Abs(a), Abs(b))
         IN  [num |-> (Sign(b) * a) \div g, den |-> Abs(b) \div g]

IsFinite(q) == q.den # 0

\* Go's int(f) of a finite float64 f = n/d (d > 0) truncates toward zero.
FloatToInt(n, d) == IF n >= 0 THEN n \div d ELSE -((-n) \div d)

EmptyMetrics ==
    [Leads |-> 0, Opportunities |-> 0, ClosedWon |-> 0, Revenue |-> 0,
     CPC |-> Zero, CPA |-> Zero, CVRLeadToOpp |-> Zero, CVROppToWon |-> Zero,
     ROAS |-> Zero]

\* A mutant of CountStage: the amount of every stage is added to the revenue.
CountStage_AnyStage(m, opp) ==
    [m EXCEPT !.Opportunities = @ + 1,
              !.ClosedWon = IF opp.Stage = "closed_won" THEN @ + 1 ELSE @,
              !.Revenue = @ + opp.Amount]

\* One iteration of the loop "Count opportunities by stage".
CountStage(m, opp) ==
    IF opp.Stage = "closed_won"
    THEN [m EXCEPT !.Opportunities = @ + 1, !.ClosedWon = @ + 1,
                   !.Revenue = @ + opp.Amount]
    ELSE [m EXCEPT !.Opportunities = @ + 1]

RECURSIVE CountStages(_, _)
CountStages(m, opps) ==
    IF opps = << >> THEN m ELSE CountStages(CountStage(m, Head(opps)), Tail(opps))

\* A mutant of EstimateLeads: the product is rounded to the nearest integer.
EstimateLeads_Rounded(clicks) == FloatToInt(2 * clicks + 10, 20)

\* metrics.Leads = int(float64(ad.Clicks) * 0.1)
EstimateLeads(clicks) == FloatToInt(clicks, 10)

\* A mutant of CalcCPC: the guard on the denominator is missing.
CalcCPC_Unguarded(a) == FDiv(a.Cost, a.Clicks)

CalcCPC(a) == IF a.Clicks > 0 THEN FDiv(a.Cost, a.Clicks) ELSE Zero

CalcCPA(a, m) == IF m.Leads > 0 THEN FDiv(a.Cost, m.Leads) ELSE Zero

CalcCVRLeadToOpp(m) == IF m.Leads > 0 THEN FDiv(m.Opportunities, m.Leads) ELSE Zero

CalcCVROppToWon(m) ==
    IF m.Opportunities > 0 THEN FDiv(m.ClosedWon, m.Opportunities) ELSE Zero

CalcROAS(a, m) == IF a.Cost > 0 THEN FDiv(m.Revenue, a.Cost) ELSE Zero

calculateMetrics(a, opps) ==
    LET m1 == CountStages(EmptyMetrics, opps)
        m2 == [m1 EXCEPT !.Leads = EstimateLeads(a.Clicks)]
    IN  [m2 EXCEPT !.CPC = CalcCPC(a),
                   !.CPA = CalcCPA(a, m2),
                   !.CVRLeadToOpp = CalcCVRLeadToOpp(m2),
                   !.CVROppToWon = CalcCVROppToWon(m2),
                   !.ROAS = CalcROAS(a, m2)]

-----------------------------------------------------------------------------
(* Dates: time.Parse("2006-01-02", s), Time.IsZero, Time.Before             *)

Digits == <<"0", "1", "2", "3", "4", "5", "6", "7", "8", "9">>

IsDigit(c) == \E i \in 1..Len(Digits) : Digits[i] = c

DigitVal(c) == (CHOOSE i \in 1..Len(Digits) : Digits[i] = c) - 1

IsLeap(y) == (y % 4 = 0) /\ ((y % 100 # 0) \/ (y % 400 = 0))

DaysIn(m, y) ==
    IF m = 2 THEN (IF IsLeap(y) THEN 29 ELSE 28)
    ELSE IF m \in {4, 6, 9, 11} THEN 30 ELSE 31

\* An order-preserving numbering of the days of the calendar: the code only
\* compares instants (Before, After, IsZero), never measures a distance.
DayNumber(y, m, d) == (y * 12 + (m - 1)) * 31 + (d - 1)

\* time.Time{}: January 1, year 1, 00:00:00 UTC.
ZeroTime == DayNumber(1, 1, 1)

IsZero(t) == t = ZeroTime

Before(t, u) == t < u

\* An After that also holds of equal instants.
After_OrEqual(t, u) == t >= u

After(t, u) == t > u

\* The layout 2006-01-02 takes exactly four digits, '-', two digits, '-', two
\* digits; the month must be 1..12 and the day must exist in that month.
\* On error time.Parse returns the zero time.
ParseDate(s) ==
    IF /\ Len(s) = 10
       /\ s[5] = "-" /\ s[8] = "-"
       /\ \A i \in {1, 2, 3, 4, 6, 7, 9, 10} : IsDigit(s[i])
    THEN LET y == 1000 * DigitVal(s[1]) + 100 * DigitVal(s[2])
                  + 10 * DigitVal(s[3]) + DigitVal(s[4])
             m == 10 * DigitVal(s[6]) + DigitVal(s[7])
             d == 10 * DigitVal(s[9]) + DigitVal(s[10])
         IN  IF m \in 1..12 /\ d >= 1 /\ d <= DaysIn(m, y)
             THEN [ok |-> TRUE, t |-> DayNumber(y, m, d)]
             ELSE [ok |-> FALSE, t |-> ZeroTime]
    ELSE [ok |-> FALSE, t |-> ZeroTime]

\* The literal YYYY-MM-DD of a day, as the sources write it.
DigitAt(n, p) == Digits[((n \div p) % 10) + 1]

DateLit(y, m, d) ==
    << DigitAt(y, 1000), DigitAt(y, 100), DigitAt(y, 10), DigitAt(y, 1), "-",
       DigitAt(m, 10), DigitAt(m, 1), "-", DigitAt(d, 10), DigitAt(d, 1) >>

-----------------------------------------------------------------------------
(* Transform Engine                                                         *)

\* A mutant of SkipAd: a record dated exactly sinceTime is dropped too.
SkipAd_Inclusive(a, since) ==
    /\ ~IsZero(since)
    /\ \/ ~ParseDate(a.Date).ok
       \/ ~Before(since, ParseDate(a.Date).t)

\* "Filter by date if sinceTime is specified": TRUE when the loop continues
\* without emitting a record for a.
SkipAd(a, since) ==
    /\ ~IsZero(since)
    /\ \/ ~ParseDate(a.Date).ok
       \/ Before(ParseDate(a.Date).t, since)

\* A mutant of TransformRecord: Clicks and Impressions are swapped.
TransformRecord_Swapped(a, m) ==
    [Date |-> a.Date, Channel |-> a.Channel, CampaignID |-> a.CampaignID,
     Clicks |-> a.Impressions, Impressions |-> a.Clicks, Cost |-> a.Cost,
     Leads |-> m.Leads, Opportunities |-> m.Opportunities,
     ClosedWon |-> m.ClosedWon, Revenue |-> m.Revenue,
     CPC |-> m.CPC, CPA |-> m.CPA, CVRLeadToOpp |-> m.CVRLeadToOpp,
     CVROppToWon |-> m.CVROppToWon, ROAS |-> m.ROAS]

\* models.TransformedData{...} built from the ad and its metrics.
TransformRecord(a, m) ==
    [Date |-> a.Date, Channel |-> a.Channel, CampaignID |-> a.CampaignID,
     Clicks |-> a.Clicks, Impressions |-> a.Impressions, Cost |-> a.Cost,
     Leads |-> m.Leads, Opportunities |-> m.Opportunities,
     ClosedWon |-> m.ClosedWon, Revenue |-> m.Revenue,
     CPC |-> m.CPC, CPA |-> m.CPA, CVRLeadToOpp |-> m.CVRLeadToOpp,
     CVROppToWon |-> m.CVROppToWon, ROAS |-> m.ROAS]

RECURSIVE TransformFrom(_, _, _, _)
TransformFrom(out, ads, lookup, since) ==
    IF ads = << >> THEN out
    ELSE LET a == Head(ads)
         IN  IF SkipAd(a, since)
             THEN TransformFrom(out, Tail(ads), lookup, since)
             ELSE TransformFrom(
                      Append(out, TransformRecord(a,
                          calculateMetrics(a, findMatchingOpportunities(a, lookup)))),
                      Tail(ads), lookup, since)

transformData(ads, crm, since) == TransformFrom(<< >>, ads, buildCRMLookup(crm), since)

-----------------------------------------------------------------------------
(* Store: InMemoryStorage                                                   *)

\* for _, item := range data { s.ingestionTimes[item.Date] = time.Now() }
RECURSIVE MarkDates(_, _, _)
MarkDates(times, batch, t) ==
    IF batch = << >> THEN times
    ELSE LET d == Head(batch).Date
         IN  MarkDates([k \in (DOMAIN times) \cup {d} |-> IF k = d THEN t ELSE times[k]],
                       Tail(batch), t)

\* A mutant of MarkBatch: only the date of the first record of the batch is stamped.
MarkBatch_FirstOnly(times, batch, t) ==
    IF batch = << >> THEN times ELSE MarkDates(times, <<Head(batch)>>, t)

\* "Update ingestion times for idempotency"
MarkBatch(times, batch, t) == MarkDates(times, batch, t)

\* A mutant of AppendData: the batch replaces the collection (s.data = data).
AppendData_Replace(old, batch) == batch

\* An append that skips the records whose date is already stored.
AppendData_Dedup(old, batch) ==
    old \o SelectSeq(batch, LAMBDA item :
                \A i \in 1..Len(old) : old[i].Date # item.Date)

\* s.data = append(s.data, data...)
AppendData(old, batch) == old \o batch

matchesFilters(item, filters) ==
    \A key \in DOMAIN filters :
        CASE key = "channel" -> item.Channel = filters[key]
          [] key = "campaign_id" -> item.CampaignID = filters[key]
          [] OTHER -> TRUE

\* A loop that stops at the first stored record whose date fails to parse.
FilterData_StopAtBad(d, from, to, filters) ==
    LET bad == {i \in 1..Len(d) : ~ParseDate(d[i].Date).ok}
        n   == IF bad = {} THEN Len(d)
               ELSE (CHOOSE i \in bad : \A j \in bad : i <= j) - 1
    IN  SelectSeq(SubSeq(d, 1, n), LAMBDA item :
            LET itemDate == ParseDate(item.Date)
            IN  /\ ~Before(itemDate.t, from)
                /\ ~After(itemDate.t, to)
                /\ matchesFilters(item, filters))

\* The loop of GetTransformedData: the stored records that pass the date
\* range and the filters, in storage order.
FilterData(d, from, to, filters) ==
    SelectSeq(d, LAMBDA item :
        LET itemDate == ParseDate(item.Date)
        IN  /\ itemDate.ok
            /\ ~Before(itemDate.t, from)
            /\ ~After(itemDate.t, to)
            /\ matchesFilters(item, filters))

\* A pagination whose page runs one record past offset + limit.
Paginate_EndInclusive(filtered, limit, offset) ==
    LET start == offset
        end0  == IF limit <= 0 THEN Len(filtered) ELSE offset + limit + 1
        end   == IF end0 > Len(filtered) THEN Len(filtered) ELSE end0
    IN  IF start >= Len(filtered) THEN [panic |-> FALSE, value |-> << >>]
        ELSE IF start < 0 \/ start > end THEN [panic |-> TRUE, value |-> << >>]
        ELSE [panic |-> FALSE, value |-> SubSeq(filtered, start + 1, end)]

\* A pagination without the "limit <= 0 means no limit" case.
Paginate_NoUnlimited(filtered, limit, offset) ==
    LET start == offset
        end0  == offset + limit
        end   == IF end0 > Len(filtered) THEN Len(filtered) ELSE end0
    IN  IF start >= Len(filtered) THEN [panic |-> FALSE, value |-> << >>]
        ELSE IF start < 0 \/ start > end THEN [panic |-> TRUE, value |-> << >>]
        ELSE [panic |-> FALSE, value |-> SubSeq(filtered, start + 1, end)]

\* "Apply pagination". A slice expression filtered[start:end] with start < 0
\* or start > end is a run-time panic.
Paginate(filtered, limit, offset) ==
    LET start == offset
        end0  == IF limit <= 0 THEN Len(filtered) ELSE offset + limit
        end   == IF end0 > Len(filtered) THEN Len(filtered) ELSE end0
    IN  IF start >= Len(filtered) THEN [panic |-> FALSE, value |-> << >>]
        ELSE IF start < 0 \/ start > end THEN [panic |-> TRUE, value |-> << >>]
        ELSE [panic |-> FALSE, value |-> SubSeq(filtered, start + 1, end)]

GetTransformedDataOf(d, from, to, filters, limit, offset) ==
    Paginate(FilterData(d, from, to, filters), limit, offset)

HasBeenIngestedOf(times, date) == date \in DOMAIN times

-----------------------------------------------------------------------------
(* Bounds and inputs                                                        *)

MaxOpps == 3      \* opportunities in the CRM batch of a matcher call
MaxMatched == 3   \* matched opportunities passed to calculateMetrics
MaxClicks == 12   \* |clicks| of the ads passed to calculateMetrics (and 1000)
MaxAds == 3       \* ad records in the batch of a transform call
MaxData == 3      \* records the Store holds
MaxBatch == 2     \* records in one StoreTransformedData call
MaxTime == 2      \* readings of the wall clock

SeqsUpTo(S, n) == UNION {[1..k -> S] : k \in 0..n}

Opportunity(id, stage, amount, c, s, m) ==
    [OpportunityID |-> id, Stage |-> stage, Amount |-> amount,
     UTMCampaign |-> c, UTMSource |-> s, UTMMedium |-> m]

AdsPerformance(date, campaign, channel, clicks, impressions, cost, c, s, m) ==
    [Date |-> date, CampaignID |-> campaign, Channel |-> channel,
     Clicks |-> clicks, Impressions |-> impressions, Cost |-> cost,
     UTMCampaign |-> c, UTMSource |-> s, UTMMedium |-> m]

NoAd == AdsPerformance(<< >>, << >>, << >>, 0, 0, 0, << >>, << >>, << >>)

\* UTM triples of the opportunities of a matcher call: b = back_to_school,
\* s = summer_sale, g = google, f = facebook, c = cpc.
MatchTriples ==
    { << <<"b">>, <<"g">>, <<"c">> >>,
      << <<" ", "B">>, <<"G", " ">>, <<"C">> >>,
      << <<"b">>, << >>, << >> >>,
      << << >>, <<"g">>, << >> >>,
      << <<"b">>, <<"f">>, <<"c">> >>,
      << <<"s">>, <<"f">>, <<"c">> >> }

\* UTM triples of the ad of a matcher call (w = winter_sale, t = twitter).
MatchAdTriples ==
    { << <<"B", " ">>, <<"g">>, <<"c">> >>,
      << <<"b">>, <<"f">>, <<"C">> >>,
      << <<"b">>, <<"t">>, <<"c">> >>,
      << <<"w">>, <<" ", "G">>, <<"c">> >>,
      << <<"w">>, <<"t">>, <<"c">> >>,
      << <<"b">>, << >>, << >> >> }

\* A CRM batch: the opportunity ids are distinct.
CRMBatch(ts) ==
    [i \in 1..Len(ts) |-> Opportunity(i, "lead", 0, ts[i][1], ts[i][2], ts[i][3])]

MetricStages == {"closed_won", "proposal", "Closed_Won"}
MetricAmounts == {3000, 5000}

MatchedBatch(xs) ==
    [i \in 1..Len(xs) |-> Opportunity(i, xs[i][1], xs[i][2], << >>, << >>, << >>)]

MetricClicks == ((0 - MaxClicks)..MaxClicks) \cup {1000}
MetricCosts == {-7, 0, 7, 250}

Day1 == DateLit(2025, 1, 1)
Day2 == DateLit(2025, 1, 2)
Day3 == DateLit(2025, 1, 3)
BadDay == DateLit(2025, 2, 30)
NotADate == <<"b", "a", "d">>

TransformAds ==
    { AdsPerformance(d, <<"C", "1">>, <<"g">>, 1000, 50000, 250, <<"B">>, <<"g">>, <<"c">>)
        : d \in {Day1, Day2, Day3, BadDay} }
    \cup
    { AdsPerformance(d, <<"C", "2">>, <<"f">>, 0, 7, 0, <<"s">>, <<"f">>, <<"c">>)
        : d \in {Day1, Day2, Day3, NotADate} }

TransformCRM ==
    { << >>,
      << Opportunity(1, "closed_won", 5000, <<"b">>, <<"g">>, <<"c">>),
         Opportunity(2, "proposal", 3000, <<"b">>, <<"g">>, <<"c">>) >>,
      << Opportunity(1, "closed_won", 3000, <<"s">>, << >>, << >>) >> }

TransformSince == {ZeroTime, ParseDate(Day2).t, ParseDate(Day3).t}

StoreRecord(date, channel, campaign) ==
    TransformRecord(
        AdsPerformance(date, campaign, channel, 1000, 50000, 250, << >>, << >>, << >>),
        EmptyMetrics)

StoreRecords ==
    { StoreRecord(Day1, <<"g">>, <<"C", "1">>),
      StoreRecord(Day2, <<"f">>, <<"C", "2">>),
      StoreRecord(NotADate, <<"g">>, <<"C", "1">>) }

StoreDates == {Day1, Day2, Day3, NotADate}

\* The [from, to] ranges of a query.
QueryRanges == { <<ParseDate(Day1).t, ParseDate(Day2).t>>,
                 <<ParseDate(Day2).t, ParseDate(Day3).t>> }

NoFilters == [k \in {} |-> << >>]

QueryLimits == {0, 1}

QueryOffsets == {0, 1}

QueryFilters == {NoFilters, [k \in {"channel"} |-> <<"g">>]}

Query(from, to, filters, limit, offset) ==
    [from |-> from, to |-> to, filters |-> filters, limit |-> limit, offset |-> offset]

NoQuery == Query(ZeroTime, ZeroTime, NoFilters, 0, 0)

\* models.ExternalResponse of each API: External.Ads and External.CRM are
\* pointers, nil when the payload has no such member.
Feed(adsNil, performance, crmNil, opportunities) ==
    [ads |-> [nil |-> adsNil, Performance |-> performance],
     crm |-> [nil |-> crmNil, Opportunities |-> opportunities]]

NoFeed == Feed(TRUE, << >>, TRUE, << >>)

DefaultMaxRetries == 3
DefaultRetryDelay == 1

\* config.Config: the members the service and its client read; a URL or
\* secret left out of the environment is the empty string.
Config(ads, crm, sinkURL, sinkSecret, maxRetries) ==
    [AdsAPIURL |-> ads, CRMAPIURL |-> crm, SinkURL |-> sinkURL,
     SinkSecret |-> sinkSecret, MaxRetries |-> maxRetries]

NoConfig == Config(<< >>, << >>, << >>, << >>, DefaultMaxRetries)

\* An error value: nil, an *HTTPError with its status code, the error of a
\* failed attempt, ctx.Err(), or the "request failed after %d attempts: %w"
\* wrapper with its attempt count and the wrapped error.
NoError == [kind |-> "nil", status |-> 0, attempts |-> 0, last |-> "nil"]

\* The locals of doWithRetry when no call is in progress.
NoRequest ==
    [pc |-> "idle", method |-> "", url |-> << >>, hasBody |-> FALSE, body |-> << >>,
     hasResult |-> FALSE,
     maxRetries |-> 0, attempt |-> 0, lastErr |-> NoError, err |-> NoError, log |-> << >>,
     retryDelay |-> 0, waits |-> << >>]

\* context.Background(): not cancelled. When cancelled, the record keeps
\* where the client was and how much had been attempted and accepted.
Background == [done |-> FALSE, at |-> "", attempts |-> 0, sent |-> 0, accepted |-> 0]

\* The locals of ExportData when no call is in progress.
NoExport == [pc |-> "idle", date |-> << >>, idx |-> 0, err |-> NoError, runsLeft |-> 0,
             signature |-> << >>, sent |-> 0, accepted |-> 0, read |-> 0]

\* The zero value of sync.RWMutex.
Unlocked == [writer |-> "", readers |-> {}]

-----------------------------------------------------------------------------
(* Initial states                                                           *)

PureIdle ==
    /\ ad = NoAd
    /\ adsData = << >>
    /\ crmData = << >>
    /\ sinceTime = ZeroTime
    /\ crmLookup = EmptyLookup
    /\ matching = << >>
    /\ metrics = EmptyMetrics
    /\ transformed = << >>

\* NewInMemoryStorage()
NewInMemoryStorage ==
    /\ data = << >>
    /\ ingestionTimes = [k \in {} |-> 0]
    /\ lastIngestion = 0
    /\ now = 1
    /\ appended = {}
    /\ appendedCount = 0
    /\ ret = [op |-> "none", value |-> 0]

\* No ingestion and no read is in progress.
IngestIdle ==
    /\ config = NoConfig
    /\ feed = NoFeed
    /\ mu = Unlocked
    /\ call = [p \in {} |-> 0]
    /\ rd = [r \in {} |-> 0]
    /\ runLog = << >>
    /\ storedLog = << >>

QueryIdle ==
    /\ query = NoQuery
    /\ filteredData = << >>

ExportIdle ==
    /\ items = << >>
    /\ consolidated = << >>

\* No request is in progress, the context is live, nothing was ever sent.
NetIdle ==
    /\ http = NoRequest
    /\ ctx = Background
    /\ sink = << >>
    /\ netLog = << >>
    /\ export = NoExport

Init ==
    /\ pc = "idle"
    /\ PureIdle
    /\ NewInMemoryStorage
    /\ IngestIdle
    /\ QueryIdle
    /\ ExportIdle
    /\ NetIdle

InitMatch ==
    /\ pc = "start"
    /\ \E t \in MatchAdTriples :
          ad = AdsPerformance(Day1, <<"C", "1">>, <<"g">>, 1000, 50000, 250,
                              t[1], t[2], t[3])
    /\ crmData \in {CRMBatch(ts) : ts \in SeqsUpTo(MatchTriples, MaxOpps)}
    /\ adsData = << >>
    /\ sinceTime = ZeroTime
    /\ crmLookup = EmptyLookup
    /\ matching = << >>
    /\ metrics = EmptyMetrics
    /\ transformed = << >>
    /\ NewInMemoryStorage
    /\ IngestIdle
    /\ QueryIdle
    /\ ExportIdle
    /\ NetIdle

InitMetrics ==
    /\ pc = "start"
    /\ \E c \in MetricClicks, k \in MetricCosts :
          ad = AdsPerformance(Day1, <<"C", "1">>, <<"g">>, c, 50000, k,
                              << >>, << >>, << >>)
    /\ matching \in {MatchedBatch(xs) :
                        xs \in SeqsUpTo(MetricStages \X MetricAmounts, MaxMatched)}
    /\ adsData = << >>
    /\ crmData = << >>
    /\ sinceTime = ZeroTime
    /\ crmLookup = EmptyLookup
    /\ metrics = EmptyMetrics
    /\ transformed = << >>
    /\ NewInMemoryStorage
    /\ IngestIdle
    /\ QueryIdle
    /\ ExportIdle
    /\ NetIdle

InitTransform ==
    /\ pc = "start"
    /\ adsData \in SeqsUpTo(TransformAds, MaxAds)
    /\ crmData \in TransformCRM
    /\ sinceTime \in TransformSince
    /\ ad = NoAd
    /\ crmLookup = EmptyLookup
    /\ matching = << >>
    /\ metrics = EmptyMetrics
    /\ transformed = << >>
    /\ NewInMemoryStorage
    /\ IngestIdle
    /\ QueryIdle
    /\ ExportIdle
    /\ NetIdle

-----------------------------------------------------------------------------
(* Actions                                                                  *)

\* crmLookup := s.buildCRMLookup(crmData.Opportunities)
BuildCRMLookup ==
    /\ pc = "start"
    /\ crmLookup' = buildCRMLookup(crmData)
    /\ pc' = "built"
    /\ UNCHANGED <<ad, adsData, crmData, sinceTime, matching, metrics, transformed>>
    /\ UNCHANGED <<storeVars, ingestVars, queryVars, exportVars, netVars>>

\* matchingOpportunities := s.findMatchingOpportunities(ad, crmLookup)
FindMatchingOpportunities ==
    /\ pc = "built"
    /\ matching' = findMatchingOpportunities(ad, crmLookup)
    /\ pc' = "matched"
    /\ UNCHANGED <<ad, adsData, crmData, sinceTime, crmLookup, metrics, transformed>>
    /\ UNCHANGED <<storeVars, ingestVars, queryVars, exportVars, netVars>>

\* metrics := s.calculateMetrics(ad, matchingOpportunities)
CalculateMetrics ==
    /\ pc = "start"
    /\ metrics' = calculateMetrics(ad, matching)
    /\ pc' = "done"
    /\ UNCHANGED <<ad, adsData, crmData, sinceTime, crmLookup, matching, transformed>>
    /\ UNCHANGED <<storeVars, ingestVars, queryVars, exportVars, netVars>>

\* transformedData, err := s.transformData(adsData, crmData, sinceTime)
TransformData ==
    /\ pc = "start"
    /\ transformed' = transformData(adsData, crmData, sinceTime)
    /\ pc' = "done"
    /\ UNCHANGED <<ad, adsData, crmData, sinceTime, crmLookup, matching, metrics>>
    /\ UNCHANGED <<storeVars, ingestVars, queryVars, exportVars, netVars>>

\* The whole body runs under s.mu.Lock().
StoreTransformedData(batch) ==
    /\ Len(data) + Len(batch) <= MaxData
    /\ data' = AppendData(data, batch)
    /\ ingestionTimes' = MarkBatch(ingestionTimes, batch, now)
    /\ appended' = appended \cup {batch[i].Date : i \in 1..Len(batch)}
    /\ appendedCount' = appendedCount + Len(batch)
    /\ UNCHANGED <<lastIngestion, now, ret>>
    /\ UNCHANGED <<pc, pureVars, ingestVars, queryVars, exportVars, netVars>>

\* The whole body runs under s.mu.RLock().
GetTransformedData(from, to, filters, limit, offset) ==
    /\ ret' = [op |-> "GetTransformedData",
               value |-> GetTransformedDataOf(data, from, to, filters, limit, offset)]
    /\ UNCHANGED <<data, ingestionTimes, lastIngestion, now, appended, appendedCount>>
    /\ UNCHANGED <<pc, pureVars, ingestVars, queryVars, exportVars, netVars>>

GetLastIngestionTime ==
    /\ ret' = [op |-> "GetLastIngestionTime", value |-> lastIngestion]
    /\ UNCHANGED <<data, ingestionTimes, lastIngestion, now, appended, appendedCount>>
    /\ UNCHANGED <<pc, pureVars, ingestVars, queryVars, exportVars, netVars>>

\* t is a reading of the clock the caller took before the call.
SetLastIngestionTime(t) ==
    /\ lastIngestion' = t
    /\ UNCHANGED <<data, ingestionTimes, now, appended, appendedCount, ret>>
    /\ UNCHANGED <<pc, pureVars, ingestVars, queryVars, exportVars, netVars>>

HasBeenIngested(date) ==
    /\ ret' = [op |-> "HasBeenIngested", value |-> HasBeenIngestedOf(ingestionTimes, date)]
    /\ UNCHANGED <<data, ingestionTimes, lastIngestion, now, appended, appendedCount>>
    /\ UNCHANGED <<pc, pureVars, ingestVars, queryVars, exportVars, netVars>>

\* Time passes.
Tick ==
    /\ now < MaxTime
    /\ now' = now + 1
    /\ UNCHANGED <<data, ingestionTimes, lastIngestion, appended, appendedCount, ret>>
    /\ UNCHANGED <<pc, pureVars, ingestVars, queryVars, exportVars, netVars>>

-----------------------------------------------------------------------------
(* Specifications                                                           *)

Next ==
    \/ \E batch \in SeqsUpTo(StoreRecords, MaxBatch) : StoreTransformedData(batch)
    \/ \E range \in QueryRanges, filters \in QueryFilters,
          limit \in QueryLimits, offset \in QueryOffsets :
          GetTransformedData(range[1], range[2], filters, limit, offset)
    \/ GetLastIngestionTime
    \/ \E t \in 1..now : SetLastIngestionTime(t)
    \/ \E date \in StoreDates : HasBeenIngested(date)
    \/ Tick

Spec == Init /\ [][Next]_vars

NextMatch == BuildCRMLookup \/ FindMatchingOpportunities

SpecMatch == InitMatch /\ [][NextMatch]_vars

NextMetrics == CalculateMetrics

SpecMetrics == InitMetrics /\ [][NextMetrics]_vars

NextTransform == TransformData

SpecTransform == InitTransform /\ [][NextTransform]_vars

-----------------------------------------------------------------------------
(* RunIngestion and the Store methods, step by step, under the RWMutex      *)

MaxRuns == 2      \* RunIngestion calls one caller makes in sequence

\* The since argument of a call: absent, a date, not a date.
IngestSince == { << >>, Day2, NotADate }

IngestAds ==
    << AdsPerformance(Day1, <<"C", "1">>, <<"g">>, 1000, 50000, 250, <<"B">>, <<"g">>, <<"c">>),
       AdsPerformance(Day2, <<"C", "2">>, <<"f">>, 0, 7, 0, <<"s">>, <<"f">>, <<"c">>) >>

IngestCRM ==
    << Opportunity(1, "closed_won", 5000, <<"b">>, <<"g">>, <<"c">>),
       Opportunity(2, "proposal", 3000, <<"b">>, <<"g">>, <<"c">>) >>

IngestFeeds ==
    { Feed(FALSE, IngestAds, FALSE, IngestCRM),
      Feed(FALSE, SubSeq(IngestAds, 1, 1), TRUE, << >>),
      Feed(TRUE, << >>, FALSE, IngestCRM) }

URL == <<"u">>

IngestConfigs ==
    { Config(URL, URL, << >>, << >>, DefaultMaxRetries),
      Config(<< >>, URL, << >>, << >>, DefaultMaxRetries),
      Config(URL, << >>, << >>, << >>, DefaultMaxRetries) }

ReadOps == {"GetTransformedData", "HasBeenIngested", "GetLastIngestionTime"}

\* The locals of a RunIngestion call that has not started; runs is the number
\* of calls its caller still makes, requests the history of the sources the
\* call has sent a Get to.
NewCall(runs) ==
    [pc |-> "start", since |-> << >>, sinceTime |-> ZeroTime, err |-> "",
     adsData |-> << >>, crmData |-> << >>, transformedData |-> << >>,
     snapshot |-> << >>, idx |-> 0, t |-> 0, runsLeft |-> runs, requests |-> << >>]

\* sync.RWMutex: Lock waits until no goroutine holds the mutex, RLock until no
\* writer holds it. (A reader that arrives while a writer waits is made to
\* queue behind that writer; admitting it here only adds schedules.)
CanLock_IgnoreWriter(m) == m.readers = {}

CanLock(m) == m.writer = "" /\ m.readers = {}

CanRLock_IgnoreWriter(m) == TRUE

CanRLock(m) == m.writer = ""

\* One caller that runs RunIngestion MaxRuns times in sequence.
InitIngest ==
    /\ pc = "idle"
    /\ PureIdle
    /\ NewInMemoryStorage
    /\ config \in IngestConfigs
    /\ feed \in IngestFeeds
    /\ mu = Unlocked
    /\ call = [p \in {"w1"} |-> NewCall(MaxRuns)]
    /\ rd = [r \in {} |-> 0]
    /\ runLog = << >>
    /\ storedLog = << >>
    /\ QueryIdle
    /\ ExportIdle
    /\ NetIdle

\* Two concurrent RunIngestion calls and two concurrent readers.
InitConc ==
    /\ pc = "idle"
    /\ PureIdle
    /\ NewInMemoryStorage
    /\ config = Config(URL, URL, << >>, << >>, DefaultMaxRetries)
    /\ feed = Feed(FALSE, IngestAds, FALSE, IngestCRM)
    /\ mu = Unlocked
    /\ call = [p \in {"w1", "w2"} |-> NewCall(1)]
    /\ rd = [r \in {"r1", "r2"} |-> [pc |-> "idle", op |-> "none"]]
    /\ runLog = << >>
    /\ storedLog = << >>
    /\ QueryIdle
    /\ ExportIdle
    /\ NetIdle

IngestFrame == UNCHANGED <<pc, pureVars, config, feed, queryVars, exportVars, netVars>>

\* A RunIngestion that goes on to its next step whatever the step returned.
AfterStep_GoOn(err, next) == next

\* if err != nil { return fmt.Errorf(...) }: a step that failed ends the
\* call, otherwise the next step follows.
AfterStep(err, next) == IF err # "" THEN "return" ELSE next

\* RunIngestion: "Parse since date".
ParseSince(p, since) ==
    /\ call[p].pc = "start"
    /\ LET parsed == ParseDate(since)
           err == IF since # << >> /\ ~parsed.ok THEN "invalid since date format" ELSE ""
       IN  call' = [call EXCEPT ![p] =
               [@ EXCEPT !.since = since,
                         !.err = err,
                         !.sinceTime = IF since # << >> /\ parsed.ok THEN parsed.t
                                       ELSE ZeroTime,
                         !.pc = AfterStep(err, "fetch_ads")]]
    /\ UNCHANGED <<storeVars, mu, rd, runLog, storedLog>>
    /\ IngestFrame

\* adsData, err := s.fetchAdsData(ctx); ok is the outcome of s.client.Get,
\* which is called only when the URL is configured.
FetchAdsData(p, ok) ==
    /\ call[p].pc = "fetch_ads"
    /\ LET err == IF config.AdsAPIURL = << >> \/ ~ok THEN "failed to fetch ads data"
                  ELSE ""
       IN  call' = [call EXCEPT ![p] =
               [@ EXCEPT !.err = err,
                         !.adsData = IF err # "" \/ feed.ads.nil THEN << >>
                                     ELSE feed.ads.Performance,
                         !.requests = IF config.AdsAPIURL = << >> THEN @
                                      ELSE Append(@, "ads"),
                         !.pc = AfterStep(err, "fetch_crm")]]
    /\ UNCHANGED <<storeVars, mu, rd, runLog, storedLog>>
    /\ IngestFrame

\* crmData, err := s.fetchCRMData(ctx)
FetchCRMData(p, ok) ==
    /\ call[p].pc = "fetch_crm"
    /\ LET err == IF config.CRMAPIURL = << >> \/ ~ok THEN "failed to fetch crm data"
                  ELSE ""
       IN  call' = [call EXCEPT ![p] =
               [@ EXCEPT !.err = err,
                         !.crmData = IF err # "" \/ feed.crm.nil THEN << >>
                                     ELSE feed.crm.Opportunities,
                         !.requests = IF config.CRMAPIURL = << >> THEN @
                                      ELSE Append(@, "crm"),
                         !.pc = AfterStep(err, "transform")]]
    /\ UNCHANGED <<storeVars, mu, rd, runLog, storedLog>>
    /\ IngestFrame

\* transformedData, err := s.transformData(adsData, crmData, sinceTime)
Transform(p) ==
    /\ call[p].pc = "transform"
    /\ call' = [call EXCEPT ![p] =
           [@ EXCEPT !.transformedData = transformData(call[p].adsData, call[p].crmData,
                                                   call[p].sinceTime),
                     !.pc = "store_lock"]]
    /\ UNCHANGED <<storeVars, mu, rd, runLog, storedLog>>
    /\ IngestFrame

\* s.mu.Lock() of StoreTransformedData and of SetLastIngestionTime
Lock(p) ==
    /\ call[p].pc \in {"store_lock", "set_lock"}
    /\ CanLock(mu)
    /\ mu' = [mu EXCEPT !.writer = p]
    /\ call' = [call EXCEPT ![p].pc =
                   IF call[p].pc = "store_lock" THEN "store_append" ELSE "set_write"]
    /\ UNCHANGED <<storeVars, rd, runLog, storedLog>>
    /\ IngestFrame

\* s.data = append(s.data, data...): the read of s.data
AppendRead(p) ==
    /\ call[p].pc = "store_append"
    /\ call' = [call EXCEPT ![p] = [@ EXCEPT !.snapshot = data, !.pc = "store_write"]]
    /\ UNCHANGED <<storeVars, mu, rd, runLog, storedLog>>
    /\ IngestFrame

\* s.data = append(s.data, data...): the assignment to s.data
AppendWrite(p) ==
    /\ call[p].pc = "store_write"
    /\ LET batch == call[p].transformedData
       IN  /\ data' = AppendData(call[p].snapshot, batch)
           /\ storedLog' = storedLog \o batch
           /\ appended' = appended \cup {batch[i].Date : i \in 1..Len(batch)}
           /\ appendedCount' = appendedCount + Len(batch)
    /\ call' = [call EXCEPT ![p] = [@ EXCEPT !.idx = 1, !.pc = "store_mark"]]
    /\ UNCHANGED <<ingestionTimes, lastIngestion, now, ret, mu, rd, runLog>>
    /\ IngestFrame

\* One iteration of "for _, item := range data": s.ingestionTimes[item.Date] = time.Now()
MarkItem(p) ==
    /\ call[p].pc = "store_mark"
    /\ call[p].idx <= Len(call[p].transformedData)
    /\ ingestionTimes' =
           MarkBatch(ingestionTimes, <<call[p].transformedData[call[p].idx]>>, now)
    /\ call' = [call EXCEPT ![p].idx = @ + 1]
    /\ UNCHANGED <<data, lastIngestion, now, appended, appendedCount, ret,
                   mu, rd, runLog, storedLog>>
    /\ IngestFrame

\* The deferred s.mu.Unlock() of StoreTransformedData and of SetLastIngestionTime
Unlock(p) ==
    /\ \/ call[p].pc = "store_mark" /\ call[p].idx > Len(call[p].transformedData)
       \/ call[p].pc = "set_unlock"
    /\ mu' = [mu EXCEPT !.writer = ""]
    /\ call' = [call EXCEPT ![p].pc =
                   IF call[p].pc = "store_mark" THEN "set_now" ELSE "return"]
    /\ UNCHANGED <<storeVars, rd, runLog, storedLog>>
    /\ IngestFrame

\* The argument time.Now() of s.storage.SetLastIngestionTime(time.Now())
ReadClock(p) ==
    /\ call[p].pc = "set_now"
    /\ call' = [call EXCEPT ![p] = [@ EXCEPT !.t = now, !.pc = "set_lock"]]
    /\ UNCHANGED <<storeVars, mu, rd, runLog, storedLog>>
    /\ IngestFrame

\* s.lastIngestion = t
SetWrite(p) ==
    /\ call[p].pc = "set_write"
    /\ lastIngestion' = call[p].t
    /\ call' = [call EXCEPT ![p].pc = "set_unlock"]
    /\ UNCHANGED <<data, ingestionTimes, now, appended, appendedCount, ret,
                   mu, rd, runLog, storedLog>>
    /\ IngestFrame

\* RunIngestion returns err (nil is ""); its caller makes the next call, if any.
Return(p) ==
    /\ call[p].pc = "return"
    /\ runLog' = Append(runLog, [proc |-> p, since |-> call[p].since, err |-> call[p].err,
                                 batch |-> call[p].transformedData, stored |-> data,
                                 requests |-> call[p].requests,
                                 times |-> ingestionTimes, last |-> lastIngestion])
    /\ call' = [call EXCEPT ![p] =
           IF @.runsLeft > 1 THEN NewCall(@.runsLeft - 1)
           ELSE [NewCall(0) EXCEPT !.pc = "done"]]
    /\ UNCHANGED <<storeVars, mu, rd, storedLog>>
    /\ IngestFrame

\* s.mu.RLock() of GetTransformedData, HasBeenIngested, GetLastIngestionTime
RLock(r, op) ==
    /\ rd[r].pc = "idle"
    /\ CanRLock(mu)
    /\ mu' = [mu EXCEPT !.readers = @ \cup {r}]
    /\ rd' = [rd EXCEPT ![r] = [pc |-> "locked", op |-> op]]
    /\ UNCHANGED <<storeVars, call, runLog, storedLog>>
    /\ IngestFrame

\* The body of the read, under the read lock.  A GetLastIngestionTime keeps,
\* as history, the value the GetLastIngestionTime before it returned (the
\* zero time when the last read was none).
Read(r, date) ==
    /\ rd[r].pc = "locked"
    /\ ret' =
         CASE rd[r].op = "GetTransformedData" ->
                [op |-> rd[r].op,
                 value |-> GetTransformedDataOf(data, ParseDate(Day1).t, ParseDate(Day3).t,
                                                NoFilters, 0, 0)]
           [] rd[r].op = "HasBeenIngested" ->
                [op |-> rd[r].op, value |-> HasBeenIngestedOf(ingestionTimes, date)]
           [] OTHER ->
                [op |-> rd[r].op, value |-> lastIngestion,
                 prev |-> IF ret.op = "GetLastIngestionTime" THEN ret.value ELSE 0]
    /\ rd' = [rd EXCEPT ![r].pc = "read"]
    /\ UNCHANGED <<data, ingestionTimes, lastIngestion, now, appended, appendedCount,
                   mu, call, runLog, storedLog>>
    /\ IngestFrame

\* The deferred s.mu.RUnlock()
RUnlock(r) ==
    /\ rd[r].pc = "read"
    /\ mu' = [mu EXCEPT !.readers = @ \ {r}]
    /\ rd' = [rd EXCEPT ![r] = [pc |-> "idle", op |-> "none"]]
    /\ UNCHANGED <<storeVars, call, runLog, storedLog>>
    /\ IngestFrame

NextIngest ==
    \E p \in DOMAIN call :
        \/ \E since \in IngestSince : ParseSince(p, since)
        \/ \E ok \in BOOLEAN : FetchAdsData(p, ok)
        \/ \E ok \in BOOLEAN : FetchCRMData(p, ok)
        \/ Transform(p)
        \/ Lock(p)
        \/ AppendRead(p)
        \/ AppendWrite(p)
        \/ MarkItem(p)
        \/ Unlock(p)
        \/ ReadClock(p)
        \/ SetWrite(p)
        \/ Return(p)

SpecIngest == InitIngest /\ [][NextIngest]_vars

NextRead ==
    \E r \in DOMAIN rd :
        \/ \E op \in ReadOps : RLock(r, op)
        \/ \E date \in {Day1, Day2} : Read(r, date)
        \/ RUnlock(r)

NextConc == NextIngest \/ NextRead

SpecConc == InitConc /\ [][NextConc]_vars

\* Two concurrent RunIngestion calls of an ads source that serves no record,
\* a reader of the last ingestion time, and the wall clock.
InitClock ==
    /\ pc = "idle"
    /\ PureIdle
    /\ NewInMemoryStorage
    /\ config = Config(URL, URL, << >>, << >>, DefaultMaxRetries)
    /\ feed = Feed(TRUE, << >>, FALSE, IngestCRM)
    /\ mu = Unlocked
    /\ call = [p \in {"w1", "w2"} |-> NewCall(1)]
    /\ rd = [r \in {"r1"} |-> [pc |-> "idle", op |-> "none"]]
    /\ runLog = << >>
    /\ storedLog = << >>
    /\ QueryIdle
    /\ ExportIdle
    /\ NetIdle

NextClockRead ==
    \E r \in DOMAIN rd :
        \/ RLock(r, "GetLastIngestionTime")
        \/ Read(r, Day1)
        \/ RUnlock(r)

NextClock == NextIngest \/ NextClockRead \/ Tick

SpecClock == InitClock /\ [][NextClock]_vars

-----------------------------------------------------------------------------
(* One GetTransformedData call over a populated Store                       *)

SelectRecords ==
    { StoreRecord(Day1, <<"g">>, <<"C", "1">>),
      StoreRecord(Day2, <<"f">>, <<"C", "2">>),
      StoreRecord(Day3, <<"g">>, <<"C", "2">>),
      StoreRecord(NotADate, <<"g">>, <<"C", "1">>) }

SelectRanges == { <<ParseDate(Day1).t, ParseDate(Day2).t>>,
                  <<ParseDate(Day2).t, ParseDate(Day2).t>>,
                  <<ParseDate(Day2).t, ParseDate(Day3).t>> }

\* filters := map[string]string{"channel": channel} of Service.GetChannelMetrics
ChannelFilters(channel) == [k \in {"channel"} |-> channel]

SelectFilters ==
    { NoFilters,
      ChannelFilters(<<"g">>),
      [k \in {"campaign_id"} |-> <<"C", "1">>],
      [k \in {"channel", "campaign_id"} |-> IF k = "channel" THEN <<"g">> ELSE <<"C", "2">>],
      [k \in {"utm_campaign"} |-> <<"b">>] }

PageLimits == {-1, 0, 1, 2}

PageOffsets == {-1, 0, 1, 2, 3}

\* The Store holds any records, in any order; the call has any arguments.
InitQuery ==
    /\ pc = "start"
    /\ PureIdle
    /\ data \in SeqsUpTo(SelectRecords, MaxData)
    /\ ingestionTimes = MarkBatch([k \in {} |-> 0], data, 1)
    /\ lastIngestion = 1
    /\ now = 1
    /\ appended = {data[i].Date : i \in 1..Len(data)}
    /\ appendedCount = Len(data)
    /\ ret = [op |-> "none", value |-> 0]
    /\ IngestIdle
    /\ \E range \in SelectRanges, filters \in SelectFilters,
          limit \in PageLimits, offset \in PageOffsets :
          query = Query(range[1], range[2], filters, limit, offset)
    /\ filteredData = << >>
    /\ ExportIdle
    /\ NetIdle

\* GetTransformedData: "for _, item := range s.data", under the read lock
FilterStep ==
    /\ pc = "start"
    /\ filteredData' = FilterData(data, query.from, query.to, query.filters)
    /\ pc' = "filtered"
    /\ UNCHANGED <<pureVars, storeVars, ingestVars, query, exportVars, netVars>>

\* GetTransformedData: "Apply pagination" and return
PaginateStep ==
    /\ pc = "filtered"
    /\ ret' = [op |-> "GetTransformedData",
               value |-> Paginate(filteredData, query.limit, query.offset)]
    /\ pc' = "done"
    /\ UNCHANGED <<pureVars, data, ingestionTimes, lastIngestion, now, appended,
                   appendedCount, ingestVars, queryVars, exportVars, netVars>>

NextQuery == FilterStep \/ PaginateStep

SpecQuery == InitQuery /\ [][NextQuery]_vars

-----------------------------------------------------------------------------
(* Service.GetFunnelMetrics over a populated Store                          *)

\* A funnel query that passes its argument on as a campaign_id filter.
GetFunnelMetricsOf_ByCampaign(d, from, to, utmCampaign, limit, offset) ==
    GetTransformedDataOf(d, from, to, [k \in {"campaign_id"} |-> utmCampaign],
                         limit, offset)

\* filters := map[string]string{}
\* return s.storage.GetTransformedData(from, to, filters, limit, offset)
GetFunnelMetricsOf(d, from, to, utmCampaign, limit, offset) ==
    GetTransformedDataOf(d, from, to, NoFilters, limit, offset)

\* The utm_campaign arguments: none, a campaign name, and a string that is
\* the campaign id of stored records.
FunnelCampaigns == {<< >>, <<"b">>, <<"C", "1">>}

InitFunnel ==
    /\ pc = "start"
    /\ PureIdle
    /\ data \in SeqsUpTo(SelectRecords, MaxData)
    /\ ingestionTimes = MarkBatch([k \in {} |-> 0], data, 1)
    /\ lastIngestion = 1
    /\ now = 1
    /\ appended = {data[i].Date : i \in 1..Len(data)}
    /\ appendedCount = Len(data)
    /\ ret = [op |-> "none", value |-> 0]
    /\ IngestIdle
    /\ \E range \in SelectRanges, limit \in PageLimits, offset \in PageOffsets :
          query = Query(range[1], range[2], NoFilters, limit, offset)
    /\ filteredData = << >>
    /\ ExportIdle
    /\ NetIdle

\* Service.GetFunnelMetrics(from, to, utmCampaign, limit, offset)
GetFunnelMetrics(utmCampaign) ==
    /\ pc = "start"
    /\ ret' = [op |-> "GetFunnelMetrics", utmCampaign |-> utmCampaign,
               value |-> GetFunnelMetricsOf(data, query.from, query.to, utmCampaign,
                                            query.limit, query.offset)]
    /\ pc' = "done"
    /\ UNCHANGED <<pureVars, data, ingestionTimes, lastIngestion, now, appended,
                   appendedCount, ingestVars, queryVars, exportVars, netVars>>

NextFunnel == \E utmCampaign \in FunnelCampaigns : GetFunnelMetrics(utmCampaign)

SpecFunnel == InitFunnel /\ [][NextFunnel]_vars

-----------------------------------------------------------------------------
(* consolidateDataByChannelAndCampaign                                      *)

MaxItems == 3     \* records passed to consolidateDataByChannelAndCampaign

\* The byte of each character the inputs use; Go compares strings bytewise.
Byte(c) ==
    CASE c = "1" -> 49 [] c = "2" -> 50 [] c = "C" -> 67
      [] c = "f" -> 102 [] c = "g" -> 103 [] c = "|" -> 124

\* s < t on Go strings
StrLess(s, t) ==
    \E k \in 1..(Len(t)) :
        /\ \A j \in 1..(k - 1) : j <= Len(s) /\ s[j] = t[j]
        /\ \/ k = Len(s) + 1
           \/ k <= Len(s) /\ Byte(s[k]) < Byte(t[k])

\* key := item.Channel + "|" + item.CampaignID
ConsolidationKey(item) == item.Channel \o <<"|">> \o item.CampaignID

\* The branch "if existing, exists := consolidated[key]; exists": the sums,
\* then each derived metric recomputed when its denominator is positive and
\* left as it was otherwise.
Aggregate(existing, item) ==
    LET clicks        == existing.Clicks + item.Clicks
        cost          == existing.Cost + item.Cost
        leads         == existing.Leads + item.Leads
        opportunities == existing.Opportunities + item.Opportunities
        closedWon     == existing.ClosedWon + item.ClosedWon
        revenue       == existing.Revenue + item.Revenue
    IN  [Date |-> existing.Date, Channel |-> existing.Channel,
         CampaignID |-> existing.CampaignID,
         Clicks |-> clicks,
         Impressions |-> existing.Impressions + item.Impressions,
         Cost |-> cost, Leads |-> leads, Opportunities |-> opportunities,
         ClosedWon |-> closedWon, Revenue |-> revenue,
         CPC |-> IF clicks > 0 THEN FDiv(cost, clicks) ELSE existing.CPC,
         CPA |-> IF leads > 0 THEN FDiv(cost, leads) ELSE existing.CPA,
         CVRLeadToOpp |-> IF leads > 0 THEN FDiv(opportunities, leads)
                          ELSE existing.CVRLeadToOpp,
         CVROppToWon |-> IF opportunities > 0 THEN FDiv(closedWon, opportunities)
                         ELSE existing.CVROppToWon,
         ROAS |-> IF cost > 0 THEN FDiv(revenue, cost) ELSE existing.ROAS]

\* The loop "for _, item := range data" from item i on, over the map m.
RECURSIVE ConsolidateFrom(_, _, _)
ConsolidateFrom(m, list, i) ==
    IF i > Len(list) THEN m
    ELSE LET item == list[i]
             key  == ConsolidationKey(item)
             new  == IF key \in DOMAIN m THEN Aggregate(m[key], item) ELSE item
         IN  ConsolidateFrom([k \in DOMAIN m \cup {key} |-> IF k = key THEN new ELSE m[k]],
                             list, i + 1)

\* The less function of sort.Slice
LessByChannelAndCampaign(a, b) ==
    IF a.Channel # b.Channel THEN StrLess(a.Channel, b.Channel)
    ELSE StrLess(a.CampaignID, b.CampaignID)

\* "Convert map to slice" and "Sort by channel and campaign": map values have
\* pairwise different (Channel, CampaignID), so the order is determined.
RECURSIVE SortByChannelAndCampaign(_)
SortByChannelAndCampaign(S) ==
    IF S = {} THEN << >>
    ELSE LET first == CHOOSE x \in S : \A y \in S : ~LessByChannelAndCampaign(y, x)
         IN  <<first>> \o SortByChannelAndCampaign(S \ {first})

consolidateDataByChannelAndCampaign(list) ==
    LET m == ConsolidateFrom([k \in {} |-> 0], list, 1)
    IN  SortByChannelAndCampaign({m[k] : k \in DOMAIN m})

\* A stored record as RunIngestion produces it from one ad of the feed.
ExportRecord(channel, campaign, clicks, cost, opps) ==
    LET a == AdsPerformance(Day1, campaign, channel, clicks, 50000, cost,
                            << >>, << >>, << >>)
    IN  TransformRecord(a, calculateMetrics(a, opps))

ExportRecords ==
    { ExportRecord(<<"g">>, <<"C", "1">>, 1000, 250,
                   MatchedBatch(<< <<"closed_won", 5000>>, <<"proposal", 3000>> >>)),
      ExportRecord(<<"g">>, <<"C", "1">>, 0, -250, << >>),
      ExportRecord(<<"g">>, <<"C", "1">>, 12, 7, << >>),
      ExportRecord(<<"f">>, <<"C", "2">>, 0, 0, << >>),
      ExportRecord(<<"g", "|">>, <<"C">>, 12, 7, << >>),
      ExportRecord(<<"g">>, <<"|", "C">>, 1000, 250, << >>) }

InitConsolidate ==
    /\ pc = "start"
    /\ PureIdle
    /\ NewInMemoryStorage
    /\ IngestIdle
    /\ QueryIdle
    /\ items \in SeqsUpTo(ExportRecords, MaxItems)
    /\ consolidated = << >>
    /\ NetIdle

\* consolidated := s.consolidateDataByChannelAndCampaign(data)
Consolidate ==
    /\ pc = "start"
    /\ consolidated' = consolidateDataByChannelAndCampaign(items)
    /\ pc' = "done"
    /\ UNCHANGED <<pureVars, storeVars, ingestVars, queryVars, items, netVars>>

NextConsolidate == Consolidate

SpecConsolidate == InitConsolidate /\ [][NextConsolidate]_vars

-----------------------------------------------------------------------------
(* The fetch client: Get, Post, doWithRetry, doRequest                      *)

MaxRetriesCap == 2   \* largest ClientConfig.MaxRetries a client is built with

\* The response status codes the server answers an attempt with, besides 200.
ErrorStatuses == {400, 499, 500}

Error(kind, status) == [kind |-> kind, status |-> status, attempts |-> 0, last |-> "nil"]

\* &HTTPError{StatusCode: resp.StatusCode, Message: string(respBody)}
HTTPError(status) == Error("http", status)

\* What one doRequest meets: the kind of its result, the response status, and
\* whether the server processed the request (accepted a posted record).
Outcome(kind, status, accepted) == [kind |-> kind, status |-> status, accepted |-> accepted]

\* The outcomes doRequest can meet.  With the context already done
\* httpClient.Do returns the context's error and sends nothing.  Otherwise:
\* a 2xx answer, an answer with status >= 400, a transport error (before or
\* after the server processed the request), a failed read of the body of a
\* 2xx answer, and, when a result is to be decoded, a body that does not
\* unmarshal.
Outcomes(done, hasResult) ==
    IF done THEN {Outcome("ctx", 0, FALSE)}
    ELSE {Outcome("ok", 200, TRUE)}
         \cup {Outcome("http", s, FALSE) : s \in ErrorStatuses}
         \cup {Outcome("network", 0, a) : a \in BOOLEAN}
         \cup {Outcome("read", 200, TRUE)}
         \cup (IF hasResult THEN {Outcome("decode", 200, TRUE)} ELSE {})

\* A doRequest that reports an error for every outcome, a 2xx answer included.
doRequest_NeverNil(outcome) ==
    IF outcome.kind = "http" THEN HTTPError(outcome.status) ELSE Error(outcome.kind, 0)

\* The error doRequest returns for an outcome; the four fmt.Errorf wrappers
\* keep their own kind.
doRequest(outcome) ==
    CASE outcome.kind = "ok"   -> NoError
      [] outcome.kind = "http" -> HTTPError(outcome.status)
      [] OTHER                 -> Error(outcome.kind, 0)

\* A test that lets status 400 through to the retry path.
IsClientError_Above400(err) == err.kind = "http" /\ err.status > 400 /\ err.status < 500

\* errors.As(err, &httpErr) && httpErr.StatusCode >= 400 && httpErr.StatusCode < 500
IsClientError(err) == err.kind = "http" /\ err.status >= 400 /\ err.status < 500

\* A loop with no bound on its attempts.
MoreAttempts_Unbounded(attempt, maxRetries) == TRUE

\* A loop that gives up one attempt early.
MoreAttempts_Strict(attempt, maxRetries) == attempt < maxRetries

\* The loop condition of doWithRetry: attempt <= c.maxRetries.
MoreAttempts(attempt, maxRetries) == attempt <= maxRetries

\* fmt.Errorf("request failed after %d attempts: %w", c.maxRetries+1, lastErr)
Exhausted(maxRetries, lastErr) ==
    [kind |-> "exhausted", status |-> lastErr.status, attempts |-> maxRetries + 1,
     last |-> lastErr.kind]

\* ctx.Err() once the context is done.
ContextError == Error("canceled", 0)

\* A backoff wait that does not watch the context.
BackoffInterrupted_Never(done) == FALSE

\* case <-ctx.Done() of the backoff select: taken when the context is done.
\* The delay is c.retryDelay * attempt with attempt >= 1, and the
\* configuration's retry delay is a positive constant, so the timer case is
\* never ready when the select is entered.
BackoffInterrupted(done) == done

\* The request doRequest builds: Content-Type is the only header it sets,
\* and only when there is a body.
Request(method, url, hasBody, body) ==
    [method |-> method, url |-> url, body |-> body,
     headers |-> IF hasBody THEN {<<"Content-Type", <<"application/json">>>>} ELSE {}]

\* json.Marshal fails on a float that is NaN or infinite.
Marshalable(body) ==
    \A f \in {"CPC", "CPA", "CVRLeadToOpp", "CVROppToWon", "ROAS"} : body[f].den # 0

\* A request body: nil, or the value to send.
NoBody == << >>
Body(value) == <<value>>

\* doWithRetry entered: attempt 0 is made without any wait.
NewRequest(method, url, hasBody, body, hasResult, maxRetries) ==
    [pc |-> "attempt", method |-> method, url |-> url, hasBody |-> hasBody, body |-> body,
     hasResult |-> hasResult, maxRetries |-> maxRetries, attempt |-> 0,
     lastErr |-> NoError, err |-> NoError, log |-> << >>,
     retryDelay |-> DefaultRetryDelay, waits |-> << >>]

\* Client.Get: doWithRetry(ctx, "GET", url, nil, result)
Get(url, hasResult, maxRetries) ==
    NewRequest("GET", url, FALSE, NoBody, hasResult, maxRetries)

\* Client.Post: the body is marshalled first; a marshal error returns
\* before doWithRetry is entered.
Post(url, body, hasResult, maxRetries) ==
    IF Marshalable(body)
    THEN NewRequest("POST", url, TRUE, Body(body), hasResult, maxRetries)
    ELSE [NewRequest("POST", url, TRUE, Body(body), hasResult, maxRetries)
            EXCEPT !.pc = "returned", !.err = Error("marshal", 0)]

\* One pass of the loop body from doRequest on: the attempt is made and its
\* error classified; nil returns, a 4xx returns the error itself, anything
\* else is kept as lastErr and the loop goes on or ends with the wrapper.
\* (Attempts are followed up to the one numbered MaxRetriesCap, the last
\* any client built here makes.)
DoRequest(outcome) ==
    /\ http.pc = "attempt"
    /\ http.attempt <= MaxRetriesCap
    /\ outcome \in Outcomes(ctx.done, http.hasResult)
    /\ LET err == doRequest(outcome)
           made == [http EXCEPT !.log = Append(@, outcome)]
       IN  http' =
             IF err = NoError
             THEN [made EXCEPT !.pc = "returned", !.err = NoError]
             ELSE IF IsClientError(err)
             THEN [made EXCEPT !.pc = "returned", !.lastErr = err, !.err = err]
             ELSE IF MoreAttempts(http.attempt + 1, http.maxRetries)
             THEN [made EXCEPT !.pc = "backoff", !.lastErr = err,
                               !.attempt = http.attempt + 1]
             ELSE [made EXCEPT !.pc = "returned", !.lastErr = err,
                               !.attempt = http.attempt + 1,
                               !.err = Exhausted(http.maxRetries, err)]
    /\ netLog' = IF outcome.kind = "ctx" THEN netLog
                 ELSE Append(netLog, Request(http.method, http.url, http.hasBody, http.body))
    /\ sink' = IF outcome.accepted
               THEN Append(sink, Request(http.method, http.url, http.hasBody, http.body))
               ELSE sink
    /\ UNCHANGED <<pc, pureVars, storeVars, ingestVars, queryVars, exportVars, ctx, export>>

\* The same wait before every retry.
Backoff_Constant(retryDelay, attempt) == retryDelay

\* c.retryDelay * time.Duration(attempt), the wait before the attempt
\* numbered attempt (from 0).
Backoff(retryDelay, attempt) == retryDelay * attempt

\* case <-time.After(c.retryDelay * time.Duration(attempt)): the wait ends
\* with the context still live and the next attempt follows.
BackoffElapsed ==
    /\ http.pc = "backoff"
    /\ ~BackoffInterrupted(ctx.done)
    /\ http' = [http EXCEPT !.pc = "attempt",
                            !.waits = Append(@, Backoff(http.retryDelay, http.attempt))]
    /\ UNCHANGED <<pc, pureVars, storeVars, ingestVars, queryVars, exportVars,
                   ctx, sink, netLog, export>>

\* case <-ctx.Done(): return ctx.Err()
BackoffCancelled ==
    /\ http.pc = "backoff"
    /\ BackoffInterrupted(ctx.done)
    /\ http' = [http EXCEPT !.pc = "returned", !.err = ContextError]
    /\ UNCHANGED <<pc, pureVars, storeVars, ingestVars, queryVars, exportVars,
                   ctx, sink, netLog, export>>

\* The caller cancels the context it passed, during a client call or
\* between two of an export; the record notes where the client was, and how
\* many attempts, requests sent and acceptances there had been.
Cancel ==
    /\ ~ctx.done
    /\ http.pc \in {"attempt", "backoff"} \/ export.pc \in {"start", "loop", "posting"}
    /\ ctx' = [done |-> TRUE, at |-> http.pc, attempts |-> Len(http.log),
               sent |-> Len(netLog), accepted |-> Len(sink)]
    /\ UNCHANGED <<pc, pureVars, storeVars, ingestVars, queryVars, exportVars,
                   http, sink, netLog, export>>

\* A record as the export posts it, and one whose CPC is NaN.
FetchBody == ExportRecord(<<"g">>, <<"C", "1">>, 12, 7, << >>)
FetchBodyNaN == [FetchBody EXCEPT !.CPC = [num |-> 0, den |-> 0]]

\* The calls made on a client: a Get that decodes its answer or discards
\* it, a Post of each body.
FetchCalls(maxRetries) ==
    {Get(URL, r, maxRetries) : r \in BOOLEAN}
    \cup {Post(URL, b, FALSE, maxRetries) : b \in {FetchBody, FetchBodyNaN}}

\* ClientConfig.RetryDelay: the service's, and one three times as long.
RetryDelays == {DefaultRetryDelay, 3 * DefaultRetryDelay}

InitFetch ==
    /\ pc = "start"
    /\ PureIdle
    /\ NewInMemoryStorage
    /\ IngestIdle
    /\ QueryIdle
    /\ ExportIdle
    /\ \E m \in 0..MaxRetriesCap, d \in RetryDelays :
          http \in {[c EXCEPT !.retryDelay = d] : c \in FetchCalls(m)}
    /\ ctx = Background
    /\ sink = << >>
    /\ netLog = << >>
    /\ export = NoExport

NextFetch == (\E o \in Outcomes(ctx.done, http.hasResult) : DoRequest(o))
             \/ BackoffElapsed \/ BackoffCancelled \/ Cancel

SpecFetch == InitFetch /\ [][NextFetch]_vars

-----------------------------------------------------------------------------
(* ExportData, exportRecord, createHMACSignature                            *)

\* %d of an integer: its decimal digits, one token.
FormatInt(n) == <<ToString(n)>>

\* %.2f of a float64 that holds a whole amount.
Fixed2(n) == <<ToString(n), ".", "00">>

\* The integer nearest to a/b (a >= 0, b > 0), a tie going to the even one,
\* as strconv rounds the decimal expansion of a float64.
RoundHalfEven(a, b) ==
    LET q == a \div b
        r == a % b
    IN  IF 2 * r > b \/ (2 * r = b /\ q % 2 = 1) THEN q + 1 ELSE q

\* %.3f of a float64 quotient: NaN or an infinity by name, otherwise the
\* sign, the integer part and three decimals.
Fixed3(x) ==
    IF x.den = 0
    THEN <<IF x.num = 0 THEN "NaN" ELSE IF x.num > 0 THEN "+Inf" ELSE "-Inf">>
    ELSE LET n == IF x.num < 0 THEN -x.num ELSE x.num
             t == RoundHalfEven(1000 * n, x.den)
             d == t % 1000
         IN  (IF x.num < 0 THEN <<"-">> ELSE << >>)
             \o <<ToString(t \div 1000), ".">>
             \o (IF d < 10 THEN <<"0", "0">> ELSE IF d < 100 THEN <<"0">> ELSE << >>)
             \o <<ToString(d)>>

\* createHMACSignature: the fifteen members in the order of the Sprintf
\* call, '|' between them; the format has a sixteenth %.3f with no operand,
\* which Sprintf prints as %!f(MISSING).  The secret is appended and the
\* bytes printed in hexadecimal after "hmac-sha256:"; hex keeps the byte
\* sequence it encodes.
createHMACSignature(d, secret) ==
    LET bar == <<"|">>
        payload ==
            d.Date \o bar \o d.Channel \o bar \o d.CampaignID \o bar
            \o FormatInt(d.Clicks) \o bar \o FormatInt(d.Impressions) \o bar
            \o Fixed2(d.Cost) \o bar \o FormatInt(d.Leads) \o bar
            \o FormatInt(d.Opportunities) \o bar \o FormatInt(d.ClosedWon) \o bar
            \o Fixed2(d.Revenue) \o bar \o Fixed3(d.CPC) \o bar \o Fixed3(d.CPA) \o bar
            \o Fixed3(d.CVRLeadToOpp) \o bar \o Fixed3(d.CVROppToWon) \o bar
            \o Fixed3(d.ROAS) \o bar \o <<"%!f(MISSING)">>
    IN  <<"hmac-sha256:">> \o payload \o secret

\* A loop that goes on to the next record whatever exportRecord returned.
Aborts_Never(err) == FALSE

\* if err := s.exportRecord(ctx, record); err != nil { ...; return err }
Aborts(err) == err # NoError

\* A read that takes every record up to the export date.
ExportQuery_UpToDate(d, exportDate) ==
    GetTransformedDataOf(d, ZeroTime, exportDate, NoFilters, 0, 0)

\* s.storage.GetTransformedData(exportDate, exportDate, map[string]string{}, 0, 0)
ExportQuery(d, exportDate) ==
    GetTransformedDataOf(d, exportDate, exportDate, NoFilters, 0, 0)

\* A stored record of a day, channel and campaign.
DatedRecord(date, channel, campaign, clicks, cost) ==
    LET a == AdsPerformance(date, campaign, channel, clicks, 50000, cost,
                            << >>, << >>, << >>)
    IN  TransformRecord(a, calculateMetrics(a, << >>))

\* The Store an export reads: two campaigns on the first day, one of them
\* in two records, and one record on the second day; a second day only,
\* beside a record whose date does not parse; nothing.
ExportStores ==
    { << DatedRecord(Day1, <<"g">>, <<"C", "1">>, 12, 7),
         DatedRecord(Day2, <<"f">>, <<"C", "2">>, 12, 7),
         DatedRecord(Day1, <<"f">>, <<"C", "2">>, 1000, 250),
         DatedRecord(Day1, <<"g">>, <<"C", "1">>, 1000, 250) >>,
      << DatedRecord(Day2, <<"g">>, <<"C", "1">>, 12, 7),
         DatedRecord(NotADate, <<"g">>, <<"C", "1">>, 12, 7) >>,
      << >> }

ExportDates == {Day1, Day2, NotADate}

Secret == <<"s">>

\* The sink configured, with a client that does not retry or retries once,
\* or its URL or its secret left out.
ExportConfigs ==
    {Config(URL, URL, URL, Secret, m) : m \in {0, 1}}
    \cup { Config(URL, URL, << >>, Secret, DefaultMaxRetries),
           Config(URL, URL, URL, << >>, DefaultMaxRetries) }

\* The locals of an ExportData call that has not started; runs is the
\* number of calls still to make, and sent and accepted are how many
\* requests the network and the sink had seen before it.
NewExport(runs, sent, accepted) ==
    [pc |-> "start", date |-> << >>, idx |-> 0, err |-> NoError, runsLeft |-> runs,
     signature |-> << >>, sent |-> sent, accepted |-> accepted, read |-> 0]

InitExport ==
    /\ pc = "start"
    /\ PureIdle
    /\ data \in ExportStores
    /\ ingestionTimes = MarkBatch([k \in {} |-> 0], data, 1)
    /\ lastIngestion = 1
    /\ now = 1
    /\ appended = {data[i].Date : i \in 1..Len(data)}
    /\ appendedCount = Len(data)
    /\ ret = [op |-> "none", value |-> 0]
    /\ config \in ExportConfigs
    /\ feed = NoFeed
    /\ mu = Unlocked
    /\ call = [p \in {} |-> 0]
    /\ rd = [r \in {} |-> 0]
    /\ runLog = << >>
    /\ storedLog = << >>
    /\ QueryIdle
    /\ ExportIdle
    /\ http = NoRequest
    /\ ctx = Background
    /\ sink = << >>
    /\ netLog = << >>
    /\ export = NewExport(MaxRuns, 0, 0)

ExportFrame == UNCHANGED <<pc, pureVars, storeVars, ingestVars, queryVars>>

\* ExportData up to the loop: the configuration check, the date, the read
\* of the day's records and their consolidation.
ExportBegin(date) ==
    /\ export.pc = "start"
    /\ export.date \in {<< >>, date}
    /\ mu.writer = ""
    /\ LET exportDate == ParseDate(date)
           called == [export EXCEPT !.date = date]
       IN  IF config.SinkURL = << >> \/ config.SinkSecret = << >>
           THEN /\ export' = [called EXCEPT !.pc = "returned", !.err = Error("config", 0)]
                /\ UNCHANGED exportVars
           ELSE IF ~exportDate.ok
           THEN /\ export' = [called EXCEPT !.pc = "returned", !.err = Error("date", 0)]
                /\ UNCHANGED exportVars
           ELSE /\ items' = ExportQuery(data, exportDate.t).value
                /\ consolidated' = consolidateDataByChannelAndCampaign(items')
                /\ export' = [called EXCEPT !.pc = "loop", !.idx = 1, !.read = Len(data)]
    /\ ExportFrame
    /\ UNCHANGED <<http, ctx, sink, netLog>>

\* A range over the Store as it is when the record is sent, not over the
\* local the read filled.
RangeOver_Store(local, d, date) ==
    consolidateDataByChannelAndCampaign(ExportQuery(d, ParseDate(date).t).value)

\* for _, record := range consolidatedData: the range is over the local
\* slice the one read of the Store filled, whatever the Store holds by then.
RangeOver(local, d, date) == local

\* exportRecord for the next record of the range: the signature is
\* computed and logged, and the record posted to the sink with no result
\* to decode.
ExportSend ==
    /\ export.pc = "loop"
    /\ export.idx <= Len(consolidated)
    /\ LET record == RangeOver(consolidated, data, export.date)[export.idx]
       IN  /\ export' = [export EXCEPT
                           !.pc = "posting",
                           !.signature = createHMACSignature(record, config.SinkSecret)]
           /\ http' = Post(config.SinkURL, record, FALSE, config.MaxRetries)
    /\ ExportFrame
    /\ UNCHANGED <<exportVars, ctx, sink, netLog>>

\* exportRecord has returned: an error ends ExportData with that error,
\* nil moves the range on and the locals of the call are gone.
ExportCollect ==
    /\ export.pc = "posting"
    /\ http.pc = "returned"
    /\ export' = IF Aborts(http.err)
                 THEN [export EXCEPT !.pc = "returned", !.err = http.err]
                 ELSE [export EXCEPT !.pc = "loop", !.idx = @ + 1]
    /\ http' = IF Aborts(http.err) THEN http ELSE NoRequest
    /\ ExportFrame
    /\ UNCHANGED <<exportVars, ctx, sink, netLog>>

\* The range is exhausted: "Data export completed", return nil.
ExportDone ==
    /\ export.pc = "loop"
    /\ export.idx > Len(consolidated)
    /\ export' = [export EXCEPT !.pc = "returned", !.err = NoError]
    /\ ExportFrame
    /\ UNCHANGED <<exportVars, http, ctx, sink, netLog>>

\* The caller repeats its export of the date, with the context of its new
\* request.
ExportAgain ==
    /\ export.pc = "returned"
    /\ export.runsLeft > 1
    /\ export' = [NewExport(export.runsLeft - 1, Len(netLog), Len(sink))
                    EXCEPT !.date = export.date]
    /\ ctx' = Background
    /\ http' = NoRequest
    /\ ExportFrame
    /\ UNCHANGED <<exportVars, sink, netLog>>

\* The service whole: an ingestion call, a reader that queries the Store
\* and the exports of the first day, concurrent on a Store that holds one
\* record of that day; the client does not retry.
InitService ==
    /\ pc = "idle"
    /\ PureIdle
    /\ data = << DatedRecord(Day1, <<"g">>, <<"C", "1">>, 12, 7) >>
    /\ ingestionTimes = MarkBatch([k \in {} |-> 0], data, 1)
    /\ lastIngestion = 1
    /\ now = 1
    /\ appended = {data[i].Date : i \in 1..Len(data)}
    /\ appendedCount = Len(data)
    /\ ret = [op |-> "none", value |-> 0]
    /\ config = Config(URL, URL, URL, Secret, 0)
    /\ feed = Feed(FALSE, IngestAds, FALSE, IngestCRM)
    /\ mu = Unlocked
    /\ call = [p \in {"w1"} |-> NewCall(1)]
    /\ rd = [r \in {"r1"} |-> [pc |-> "idle", op |-> "none"]]
    /\ runLog = << >>
    /\ storedLog = << >>
    /\ QueryIdle
    /\ ExportIdle
    /\ http = NoRequest
    /\ ctx = Background
    /\ sink = << >>
    /\ netLog = << >>
    /\ export = NewExport(MaxRuns, 0, 0)

NextServiceRead ==
    \E r \in DOMAIN rd :
        \/ RLock(r, "GetTransformedData")
        \/ Read(r, Day1)
        \/ RUnlock(r)

NextServiceExport ==
    \/ ExportBegin(Day1)
    \/ ExportSend
    \/ ExportCollect
    \/ ExportDone
    \/ ExportAgain
    \/ \E o \in Outcomes(ctx.done, http.hasResult) : DoRequest(o)

NextService == NextIngest \/ NextServiceRead \/ NextServiceExport

SpecService == InitService /\ [][NextService]_vars

\* The service with a client that retries once and a caller that may cancel:
\* one ingestion call and one export of the first day, concurrent.
InitLive ==
    /\ pc = "idle"
    /\ PureIdle
    /\ data = << DatedRecord(Day1, <<"g">>, <<"C", "1">>, 12, 7) >>
    /\ ingestionTimes = MarkBatch([k \in {} |-> 0], data, 1)
    /\ lastIngestion = 1
    /\ now = 1
    /\ appended = {data[i].Date : i \in 1..Len(data)}
    /\ appendedCount = Len(data)
    /\ ret = [op |-> "none", value |-> 0]
    /\ config = Config(URL, URL, URL, Secret, 1)
    /\ feed = Feed(TRUE, << >>, TRUE, << >>)
    /\ mu = Unlocked
    /\ call = [p \in {"w1"} |-> NewCall(1)]
    /\ rd = [r \in {} |-> 0]
    /\ runLog = << >>
    /\ storedLog = << >>
    /\ QueryIdle
    /\ ExportIdle
    /\ http = NoRequest
    /\ ctx = Background
    /\ sink = << >>
    /\ netLog = << >>
    /\ export = NewExport(1, 0, 0)

\* One HTTP attempt of the client, whatever its outcome.
Attempt == \E o \in Outcomes(ctx.done, http.hasResult) : DoRequest(o)

\* The steps of the ExportData goroutine: its own and those of the client
\* it calls.
ExportStep ==
    \/ ExportBegin(Day1)
    \/ ExportSend
    \/ ExportCollect
    \/ ExportDone
    \/ Attempt
    \/ BackoffElapsed
    \/ BackoffCancelled

NextLive == NextIngest \/ ExportStep \/ Cancel

\* The Go scheduler runs every runnable goroutine, every HTTP attempt
\* returns (the premise of the termination claim, and http.Client.Timeout)
\* and the timer of time.After fires.  The caller need not cancel.
LiveFairness ==
    /\ WF_<<export, http>>(ExportStep)
    /\ WF_<<call, mu>>(NextIngest)

SpecLive == InitLive /\ [][NextLive]_vars /\ LiveFairness

NextExport ==
    \/ \E date \in ExportDates : ExportBegin(date)
    \/ ExportSend
    \/ ExportCollect
    \/ ExportDone
    \/ ExportAgain
    \/ \E o \in Outcomes(ctx.done, http.hasResult) : DoRequest(o)
    \/ BackoffElapsed
    \/ BackoffCancelled
    \/ Cancel

SpecExport == InitExport /\ [][NextExport]_vars

-----------------------------------------------------------------------------
(* Claims                                                                   *)

\* The opportunities of the CRM batch whose normalized UTM triple is
\* (c, s, m), in batch order.
OppsKeyed(c, s, m) ==
    SelectSeq(crmData, LAMBDA o :
        /\ normalizeUTM(o.UTMCampaign) = c
        /\ normalizeUTM(o.UTMSource) = s
        /\ normalizeUTM(o.UTMMedium) = m)

AdExact == OppsKeyed(normalizeUTM(ad.UTMCampaign), normalizeUTM(ad.UTMSource),
                     normalizeUTM(ad.UTMMedium))
AdCampaignOnly == OppsKeyed(normalizeUTM(ad.UTMCampaign), << >>, << >>)
AdSourceOnly == OppsKeyed(<< >>, normalizeUTM(ad.UTMSource), << >>)

\* C1: findMatchingOpportunities returns the opportunities of the first tier
\* that matches, in the order exact triple, campaign-only key, source-only
\* key; an exact match never yields the opportunities of a later tier, and
\* when no tier matches the result is the empty list.
C1_TierOrder ==
    pc = "matched" =>
        matching = IF AdExact # << >> THEN AdExact
                   ELSE IF AdCampaignOnly # << >> THEN AdCampaignOnly
                   ELSE AdSourceOnly

\* C1 witness: all three tiers are present for the ad and the exact one won.
C1_Witness ==
    /\ pc = "matched"
    /\ AdExact # << >>
    /\ AdCampaignOnly # << >> /\ AdCampaignOnly # AdExact
    /\ AdSourceOnly # << >>
    /\ matching = AdExact

\* The opportunities of the CRM batch whose normalized utm_campaign is the
\* ad's, whatever their source and medium.
AdSameCampaign ==
    SelectSeq(crmData, LAMBDA o :
        normalizeUTM(o.UTMCampaign) = normalizeUTM(ad.UTMCampaign))

\* C2 (as claimed): an ad with no exact-triple match is matched to the
\* opportunities whose normalized utm_campaign equals its own, whatever their
\* utm_source and utm_medium.
C2_CampaignFallbackByCampaignOnly ==
    (pc = "matched" /\ AdExact = << >> /\ AdSameCampaign # << >>)
        => matching = AdSameCampaign

\* C3: calculateMetrics never divides by zero: every quotient is finite, cpc
\* is 0 when clicks = 0, cpa and cvr_lead_to_opp are 0 when leads = 0,
\* cvr_opp_to_won is 0 when there is no opportunity, roas is 0 when cost = 0.
C3_NoDivisionByZero ==
    pc = "done" =>
        /\ IsFinite(metrics.CPC) /\ IsFinite(metrics.CPA)
        /\ IsFinite(metrics.CVRLeadToOpp) /\ IsFinite(metrics.CVROppToWon)
        /\ IsFinite(metrics.ROAS)
        /\ (ad.Clicks = 0 => metrics.CPC = Zero)
        /\ (metrics.Leads = 0 => (metrics.CPA = Zero /\ metrics.CVRLeadToOpp = Zero))
        /\ (ad.Clicks \in 0..9 => (metrics.CPA = Zero /\ metrics.CVRLeadToOpp = Zero))
        /\ (Len(matching) = 0 => metrics.CVROppToWon = Zero)
        /\ (ad.Cost = 0 => metrics.ROAS = Zero)

\* C3 witness: zero clicks with a non-zero cost and matched opportunities.
C3_Witness ==
    /\ pc = "done"
    /\ ad.Clicks = 0 /\ ad.Cost > 0 /\ Len(matching) > 0
    /\ metrics.CPC = Zero /\ metrics.CPA = Zero

RECURSIVE SumAmount(_)
SumAmount(opps) == IF opps = << >> THEN 0 ELSE Head(opps).Amount + SumAmount(Tail(opps))

MatchedWon == SelectSeq(matching, LAMBDA o : o.Stage = "closed_won")

\* C4: opportunities is the number of matched opportunities, closed_won the
\* number of them whose stage is exactly closed_won, and revenue the sum of
\* the amounts of exactly those.
C4_CountsAndRevenue ==
    pc = "done" =>
        /\ metrics.Opportunities = Len(matching)
        /\ metrics.ClosedWon = Len(MatchedWon)
        /\ metrics.Revenue = SumAmount(MatchedWon)

\* C4 witness: a closed_won opportunity beside opportunities of other stages.
C4_Witness ==
    /\ pc = "done"
    /\ Len(matching) = 3 /\ Len(MatchedWon) = 1
    /\ \E i \in 1..Len(matching) : matching[i].Stage = "Closed_Won"
    /\ metrics.Revenue = SumAmount(MatchedWon)

\* C5 (as claimed): for every ad record leads = floor(clicks * 0.10).
C5_LeadsFloor ==
    pc = "done" =>
        /\ 10 * metrics.Leads <= ad.Clicks
        /\ ad.Clicks < 10 * metrics.Leads + 10

\* C5 (amended): leads is clicks * 0.10 truncated toward zero: the floor of
\* one tenth of the clicks when clicks >= 0, its ceiling when clicks < 0.
C5_LeadsTruncated ==
    pc = "done" =>
        /\ (ad.Clicks >= 0 =>
               (10 * metrics.Leads <= ad.Clicks /\ ad.Clicks < 10 * metrics.Leads + 10))
        /\ (ad.Clicks < 0 =>
               (10 * metrics.Leads >= ad.Clicks /\ ad.Clicks > 10 * metrics.Leads - 10))

\* C5 witness: 1000 clicks give 100 leads.
C5_Witness == pc = "done" /\ ad.Clicks = 1000 /\ metrics.Leads = 100

\* The fields of an ad record that a TransformedRecord carries over.
AdFields(r) == <<r.Date, r.Channel, r.CampaignID, r.Clicks, r.Impressions, r.Cost>>

CarriedOver(recs) == [i \in 1..Len(recs) |-> AdFields(recs[i])]

DateParses(r) == ParseDate(r.Date).ok

\* The ad records of the batch the transform does not skip.
NotSkipped ==
    SelectSeq(adsData, LAMBDA a :
        IsZero(sinceTime) \/ (DateParses(a) /\ ParseDate(a.Date).t >= sinceTime))

\* C6: transformData emits exactly one record for each ad record that is not
\* skipped, in the order of the input batch, with the ad's date, channel,
\* campaign id, clicks, impressions and cost unchanged.
C6_OnePerKeptAdInOrder ==
    pc = "done" => CarriedOver(transformed) = CarriedOver(NotSkipped)

\* C6 witness: a batch of three, the middle one skipped, two different
\* records emitted.
C6_Witness ==
    /\ pc = "done"
    /\ Len(adsData) = 3 /\ Len(transformed) = 2
    /\ AdFields(transformed[1]) = AdFields(adsData[1])
    /\ AdFields(transformed[2]) = AdFields(adsData[3])
    /\ AdFields(adsData[1]) # AdFields(adsData[3])

\* C7: with sinceDate set, every ad whose date parses and is strictly before
\* it is skipped and every ad dated on or after it is kept; with no sinceDate
\* no record is skipped because of the date floor.
C7_DateFloor ==
    pc = "done" =>
        IF IsZero(sinceTime)
        THEN Len(transformed) = Len(adsData)
        ELSE /\ CarriedOver(SelectSeq(transformed, DateParses))
                  = CarriedOver(SelectSeq(adsData, LAMBDA a :
                        DateParses(a) /\ ~(ParseDate(a.Date).t < sinceTime)))
             /\ \A i \in 1..Len(transformed) :
                    DateParses(transformed[i]) =>
                        ~(ParseDate(transformed[i].Date).t < sinceTime)

\* C7 witness: one ad before the floor was dropped, one dated exactly on the
\* floor was kept.
C7_Witness ==
    /\ pc = "done"
    /\ ~IsZero(sinceTime)
    /\ \E i \in 1..Len(adsData) :
          DateParses(adsData[i]) /\ ParseDate(adsData[i].Date).t < sinceTime
    /\ \E i \in 1..Len(transformed) :
          DateParses(transformed[i]) /\ ParseDate(transformed[i].Date).t = sinceTime

\* C8 (as claimed): an ad record whose date does not parse is skipped,
\* whether or not a sinceDate was supplied: no emitted record has an
\* unparseable date.
C8_UnparseableSkipped ==
    pc = "done" => \A i \in 1..Len(transformed) : DateParses(transformed[i])

\* C9: HasBeenIngested(D) is true exactly for the dates D that appeared in an
\* appended batch: true after an append with a record dated D, false for a
\* date never appended, unchanged by appends for other dates.
C9_MarkerIffAppended ==
    \A d \in StoreDates : HasBeenIngestedOf(ingestionTimes, d) <=> d \in appended

\* C9 witness: Day1 and an unparseable date were appended, Day2 never was.
C9_Witness ==
    /\ Day1 \in appended /\ NotADate \in appended /\ Day2 \notin appended
    /\ HasBeenIngestedOf(ingestionTimes, Day1)
    /\ ~HasBeenIngestedOf(ingestionTimes, Day2)
    /\ Len(data) > 1

\* C10: if an ingestion marker exists for date D, the record collection holds
\* at least one record dated D.
C10_MarkerHasRecord ==
    \A d \in DOMAIN ingestionTimes : \E i \in 1..Len(data) : data[i].Date = d

\* C10 witness: markers for two dates, after appends and a query.
C10_Witness ==
    /\ Cardinality(DOMAIN ingestionTimes) >= 2
    /\ Len(data) >= 2
    /\ ret.op = "GetTransformedData"

\* C11: StoreTransformedData never rejects and never deduplicates: the stored
\* collection has grown by exactly the number of records of every batch ever
\* passed to it, whatever markers and records the Store held at the call.
C11_AppendGrowsByBatch == Len(data) = appendedCount

\* One record is stored three times. A call appends at most MaxBatch = 2
\* records, so the last copy came in a call made when the record was already
\* stored and its date already had a marker.
C11_Witness ==
    /\ Len(data) = 3
    /\ data[1] = data[2]
    /\ data[2] = data[3]
    /\ data[1].Date \in DOMAIN ingestionTimes
    /\ appendedCount = 3

\* C12: duplicate ingestion requests for the same date are detected and
\* skipped: when RunIngestion has succeeded twice in sequence with the same
\* since argument against the same feed, the Store holds after the second run
\* the records it held after the first.
C12_SecondRunSkipped ==
    (/\ Len(runLog) = 2
     /\ runLog[1].err = ""
     /\ runLog[2].err = ""
     /\ runLog[1].since = runLog[2].since)
        => runLog[2].stored = runLog[1].stored

\* The call holds the write lock: it is between s.mu.Lock() and the deferred
\* s.mu.Unlock() of StoreTransformedData or SetLastIngestionTime.
InWrite(p) ==
    call[p].pc \in {"store_append", "store_write", "store_mark", "set_write", "set_unlock"}

\* The read is between s.mu.RLock() and the deferred s.mu.RUnlock().
InRead(r) == rd[r].pc \in {"locked", "read"}

\* The Store holds whole batches only, and every stored record has its marker.
WholeBatchesMarked ==
    /\ data = storedLog
    /\ \A i \in 1..Len(data) : data[i].Date \in DOMAIN ingestionTimes

\* C13: an append is atomic with its marker updates and excludes every other
\* Store access: two writers never overlap, a reader never overlaps a writer,
\* and whenever a reader is inside GetTransformedData, HasBeenIngested or
\* GetLastIngestionTime (indeed whenever no writer is inside the Store) the
\* Store holds whole batches only and every stored record has its marker.
C13_AppendAtomicAndExclusive ==
    /\ \A p \in DOMAIN call, q \in DOMAIN call : InWrite(p) /\ InWrite(q) => p = q
    /\ \A p \in DOMAIN call, r \in DOMAIN rd : ~(InWrite(p) /\ InRead(r))
    /\ (\E r \in DOMAIN rd : InRead(r)) => WholeBatchesMarked
    /\ (\A p \in DOMAIN call : ~InWrite(p)) => WholeBatchesMarked

\* Two readers are inside the Store at once, after a batch was appended,
\* while a RunIngestion call waits for the write lock.
C13_Witness ==
    /\ Cardinality({r \in DOMAIN rd : InRead(r)}) = 2
    /\ Len(data) > 0
    /\ \E p \in DOMAIN call : call[p].pc = "store_lock"

Selected(item) ==
    /\ DateParses(item)
    /\ query.from <= ParseDate(item.Date).t
    /\ ParseDate(item.Date).t <= query.to
    /\ "channel" \in DOMAIN query.filters => item.Channel = query.filters["channel"]
    /\ "campaign_id" \in DOMAIN query.filters => item.CampaignID = query.filters["campaign_id"]

\* C15: before pagination GetTransformedData has selected exactly the stored
\* records dated within [from, to] inclusive that agree with every supplied
\* channel and campaign_id filter, in insertion order; with the filters of
\* GetChannelMetrics every returned record has the requested channel.
C15_SelectsRangeAndFilters ==
    /\ pc \in {"filtered", "done"} => filteredData = SelectSeq(data, Selected)
    /\ pc = "done" =>
          \A channel \in {<<"g">>, <<"f">>} :
              query.filters = ChannelFilters(channel) =>
                  \A i \in 1..Len(ret.value.value) : ret.value.value[i].Channel = channel

\* A GetChannelMetrics call has returned some but not all stored records: one
\* is left out for its channel, one for its date (the day before the range);
\* a record dated on the last day of the range is kept.
C15_Witness ==
    /\ pc = "done"
    /\ query.filters = ChannelFilters(<<"g">>)
    /\ Len(filteredData) >= 1
    /\ Len(ret.value.value) >= 1
    /\ \E i \in 1..Len(filteredData) : ParseDate(filteredData[i].Date).t = query.to
    /\ \E i \in 1..Len(data) : data[i].Channel # <<"g">>
    /\ \E i \in 1..Len(data) :
           /\ data[i].Channel = <<"g">>
           /\ DateParses(data[i])
           /\ ParseDate(data[i].Date).t < query.from

Min(a, b) == IF a < b THEN a ELSE b

Max(a, b) == IF a > b THEN a ELSE b

\* The pages a caller gets at offsets offset, offset + limit, ... up to the
\* first empty page, one after the other.
RECURSIVE PagesFrom(_)
PagesFrom(offset) ==
    LET page == GetTransformedDataOf(data, query.from, query.to, query.filters,
                                     query.limit, offset).value
    IN  IF page = << >> THEN << >> ELSE page \o PagesFrom(offset + query.limit)

\* C16 as stated, at the offsets of a pagination (O >= 0): for every limit L
\* the call returns min(L, max(0, total - O)) records, total being the number
\* of filtered records.
C16_PageSizeAnyLimit ==
    pc = "done" /\ query.offset >= 0 =>
        /\ ~ret.value.panic
        /\ Len(ret.value.value) =
               Min(query.limit, Max(0, Len(filteredData) - query.offset))

\* C16, amended: for a limit L >= 1 and an offset O >= 0 the call returns
\* the min(L, max(0, total - O)) filtered records that follow the first O, and
\* the pages at offsets 0, L, 2L, ... one after the other are the filtered
\* result, in order, each record once; for a limit L <= 0 and an offset
\* O >= 0 the call returns max(0, total - O) records.
C16_PageSizeAndPages ==
    pc = "done" /\ query.offset >= 0 =>
        /\ ~ret.value.panic
        /\ query.limit >= 1 =>
              /\ Len(ret.value.value) =
                     Min(query.limit, Max(0, Len(filteredData) - query.offset))
              /\ \A i \in 1..Len(ret.value.value) :
                     ret.value.value[i] = filteredData[query.offset + i]
              /\ PagesFrom(0) = filteredData
        /\ query.limit <= 0 =>
              Len(ret.value.value) = Max(0, Len(filteredData) - query.offset)

\* A page of one record taken from the middle of a filtered result of three.
C16_Witness ==
    /\ pc = "done"
    /\ query.limit = 1
    /\ query.offset = 1
    /\ Len(filteredData) = 3
    /\ ret.value.value = <<filteredData[2]>>

\* C17: the call returns an empty result and no error when the offset is at
\* or past the end of the filtered records, and with a limit <= 0 it returns
\* the filtered records from the offset (a position 0 <= offset) to the end.
C17_OffsetPastEndAndNoLimit ==
    pc = "done" =>
        /\ query.offset >= Len(filteredData) =>
              ret.value = [panic |-> FALSE, value |-> << >>]
        /\ query.limit <= 0 /\ query.offset >= 0 =>
              ret.value = [panic |-> FALSE,
                           value |-> SubSeq(filteredData, query.offset + 1,
                                            Len(filteredData))]

\* A call with limit <= 0 has returned the last two of three filtered records.
C17_Witness ==
    /\ pc = "done"
    /\ query.limit <= 0
    /\ query.offset = 1
    /\ Len(filteredData) = 3
    /\ ret.value.value = <<filteredData[2], filteredData[3]>>

\* C18: a stored record whose date fails to parse is in no result and causes
\* no error: the call returns what it returns from the Store without the
\* unparseable records, so the other matching records are still returned.
C18_UnparseableExcluded ==
    /\ pc \in {"filtered", "done"} =>
          /\ \A i \in 1..Len(filteredData) : DateParses(filteredData[i])
          /\ Len(filteredData) = Cardinality({i \in 1..Len(data) : Selected(data[i])})
    /\ pc = "done" =>
          ret.value = GetTransformedDataOf(SelectSeq(data, DateParses), query.from,
                                           query.to, query.filters, query.limit,
                                           query.offset)

\* An unparseable record is stored before a matching record, which is returned.
C18_Witness ==
    /\ pc = "done"
    /\ Len(data) >= 2
    /\ ~DateParses(data[1])
    /\ Selected(data[2])
    /\ ret.value.value = <<data[2]>>

\* The (channel, campaign id) pairs of the input.
ItemPairs == {<<items[i].Channel, items[i].CampaignID>> : i \in 1..Len(items)}

\* The input records of one pair, in input order.
ItemsOfPair(pair) ==
    SelectSeq(items, LAMBDA item : <<item.Channel, item.CampaignID>> = pair)

RECURSIVE SumField(_, _)
SumField(list, field) ==
    IF list = << >> THEN 0 ELSE list[1][field] + SumField(Tail(list), field)

\* C19: the result has exactly one record for each distinct (channel,
\* campaign id) pair of the input, and its clicks, impressions, cost, leads,
\* opportunities, closed_won and revenue are the sums over the pair's records.
C19_OnePerPairWithSums ==
    pc = "done" =>
        /\ Len(consolidated) = Cardinality(ItemPairs)
        /\ \A pair \in ItemPairs :
              \E k \in 1..Len(consolidated) :
                  /\ <<consolidated[k].Channel, consolidated[k].CampaignID>> = pair
                  /\ \A field \in {"Clicks", "Impressions", "Cost", "Leads",
                                    "Opportunities", "ClosedWon", "Revenue"} :
                         consolidated[k][field] = SumField(ItemsOfPair(pair), field)

\* C20: every derived metric of every consolidated record is the guarded
\* ratio of that record's own aggregated sums, 0 when the aggregated
\* denominator is not positive, also for a group of one record.
C20_RatiosFromAggregatedSums ==
    pc = "done" =>
        \A k \in 1..Len(consolidated) :
            LET r == consolidated[k]
            IN  /\ r.CPC = CalcCPC(r)
                /\ r.CPA = CalcCPA(r, r)
                /\ r.CVRLeadToOpp = CalcCVRLeadToOpp(r)
                /\ r.CVROppToWon = CalcCVROppToWon(r)
                /\ r.ROAS = CalcROAS(r, r)

\* The input records in every order.
ItemOrders ==
    LET n == Len(items)
    IN  { [i \in 1..n |-> items[f[i]]] :
            f \in {g \in [1..n -> 1..n] : \A i, j \in 1..n : g[i] = g[j] => i = j} }

\* The sequence is strictly ascending by (Channel, CampaignID).
StrictlyAscending(list) ==
    \A k \in 1..(Len(list) - 1) : LessByChannelAndCampaign(list[k], list[k + 1])

\* C21: the output is strictly ascending by (channel, campaign id), channel
\* first, for every input and every input order, so the same records in any
\* order yield the same output sequence.
C21_SortedAndSameForEveryOrder ==
    pc = "done" =>
        /\ StrictlyAscending(consolidated)
        /\ \A list \in ItemOrders :
              consolidateDataByChannelAndCampaign(list) = consolidated

\* C22: consolidating the whole list gives what consolidating a prefix and
\* then consolidating that result together with the rest gives, and the
\* output (counters and derived metrics of every bucket) does not depend on
\* the order of the input records.
C22_AssociativeAndCommutative ==
    pc = "done" =>
        /\ \A k \in 0..Len(items) :
              consolidateDataByChannelAndCampaign(
                  consolidateDataByChannelAndCampaign(SubSeq(items, 1, k))
                      \o SubSeq(items, k + 1, Len(items))) = consolidated
        /\ \A list \in ItemOrders :
              LET other == consolidateDataByChannelAndCampaign(list)
              IN  /\ Len(other) = Len(consolidated)
                  /\ \A k \in 1..Len(other) :
                        \A field \in {"Clicks", "Impressions", "Cost", "Leads",
                                      "Opportunities", "ClosedWon", "Revenue", "CPC",
                                      "CPA", "CVRLeadToOpp", "CVROppToWon", "ROAS"} :
                            other[k][field] = consolidated[k][field]

\* The attempts of the call in progress that failed: every outcome but a
\* 2xx answer that was read (and decoded).
Failed(outcome) == outcome.kind # "ok"

Retryable(outcome) ==
    /\ Failed(outcome)
    /\ ~(outcome.kind = "http" /\ outcome.status >= 400 /\ outcome.status < 500)

LastOutcome == http.log[Len(http.log)]

\* C26 as stated: a Get or Post makes at most maxRetries+1 attempts, and a
\* call that has returned after a failed attempt that was not a 4xx has made
\* all maxRetries+1 attempts and returns the terminal failure that wraps the
\* last error.
C26_RetriedUntilCap ==
    /\ Len(http.log) <= http.maxRetries + 1
    /\ (http.pc = "returned" /\ http.log # << >> /\ Retryable(LastOutcome))
         => /\ Len(http.log) = http.maxRetries + 1
            /\ http.err = Exhausted(http.maxRetries, doRequest(LastOutcome))

\* C26 amended: a Get or Post makes at most maxRetries+1 attempts; after a
\* failed attempt that was not a 4xx the call either waits for, or makes,
\* the next attempt, or has made all maxRetries+1 attempts and returns the
\* terminal failure wrapping the last error, or, its context having been
\* cancelled, returns the context's error from the backoff wait.
C26_RetriedUntilCapOrCancelled ==
    /\ Len(http.log) <= http.maxRetries + 1
    /\ (http.log # << >> /\ Retryable(LastOutcome))
         => \/ /\ http.pc \in {"backoff", "attempt"}
               /\ Len(http.log) <= http.maxRetries
            \/ /\ http.pc = "returned"
               /\ Len(http.log) = http.maxRetries + 1
               /\ http.err = Exhausted(http.maxRetries, doRequest(LastOutcome))
            \/ /\ http.pc = "returned"
               /\ Len(http.log) <= http.maxRetries
               /\ ctx.done
               /\ http.err = ContextError

\* A call with retries allowed that made them all and returned the wrapper.
C26_Witness ==
    /\ http.pc = "returned"
    /\ http.maxRetries >= 1
    /\ Len(http.log) = http.maxRetries + 1
    /\ http.err.kind = "exhausted"
    /\ http.err.attempts = http.maxRetries + 1
    /\ ~ctx.done

C28_ReturnsAtFirstSuccess ==
    \A k \in 1..Len(http.log) :
        (~Failed(http.log[k]) /\ \A i \in 1..(k - 1) : Retryable(http.log[i]))
            => /\ k = Len(http.log)
               /\ k <= http.maxRetries + 1
               /\ http.pc = "returned"
               /\ http.err = NoError

\* Two retryable failures, then success on the third attempt.
C28_Witness ==
    /\ http.pc = "returned"
    /\ Len(http.log) = 3
    /\ Retryable(http.log[1])
    /\ Retryable(http.log[2])
    /\ ~Failed(http.log[3])
    /\ http.err = NoError

\* The requests the ExportData call in progress handed to the network, and
\* those of them the sink accepted.
RunRequests == SubSeq(netLog, export.sent + 1, Len(netLog))

RunAccepted == SubSeq(sink, export.accepted + 1, Len(sink))

\* The place in the consolidated sequence of the record a request carries
\* (0 when it carries none of them).
PlaceOf(req) ==
    IF \E k \in 1..Len(consolidated) : req.body = <<consolidated[k]>>
    THEN CHOOSE k \in 1..Len(consolidated) : req.body = <<consolidated[k]>>
    ELSE 0

AcceptedInRun(record) == \E j \in 1..Len(RunAccepted) : RunAccepted[j].body = <<record>>

\* A configuration or date error: ExportData returned before its loop.
FailedBeforeLoop == export.err.kind \in {"config", "date"}

\* C23: the requests of an ExportData run carry the consolidated records in
\* their sorted order, one record at a time: the first request carries the
\* first record, and each later request carries the same record again or,
\* once the sink accepted that one, the next.  When the delivery of a record
\* fails, ExportData returns the error of that delivery and no request
\* carries a later record.
C23_SentInOrderUntilFailure ==
    /\ StrictlyAscending(consolidated)
    /\ \A i \in 1..Len(RunRequests) :
          /\ PlaceOf(RunRequests[i]) >= 1
          /\ PlaceOf(RunRequests[i]) <= export.idx
          /\ i = 1 => PlaceOf(RunRequests[i]) = 1
          /\ i > 1 =>
                \/ PlaceOf(RunRequests[i]) = PlaceOf(RunRequests[i - 1])
                \/ /\ PlaceOf(RunRequests[i]) = PlaceOf(RunRequests[i - 1]) + 1
                   /\ AcceptedInRun(consolidated[PlaceOf(RunRequests[i - 1])])
    /\ (export.pc = "returned" /\ export.err # NoError /\ ~FailedBeforeLoop)
          => /\ http.pc = "returned"
             /\ http.body = <<consolidated[export.idx]>>
             /\ export.err = http.err

\* The first of two records was refused with a 400: the run returned that
\* error having sent the first record only.
C23_Witness ==
    /\ export.pc = "returned"
    /\ export.err = HTTPError(400)
    /\ export.idx = 1
    /\ Len(consolidated) = 2
    /\ Len(RunRequests) >= 1
    /\ \A i \in 1..Len(RunRequests) : RunRequests[i].body = <<consolidated[1]>>

\* The consolidation of the stored records whose date is the export's.
ConsolidatedOfDate ==
    consolidateDataByChannelAndCampaign(SelectSeq(data, LAMBDA r : r.Date = export.date))

\* C24: when ExportData returns success the sink has accepted, in this run,
\* every consolidated record of the requested date; what it accepted in the
\* run is of that date only; and when the run fails at a record, the
\* records before it have been accepted.  (The witness shows a record
\* accepted more than once.)
C24_AtLeastOnce ==
    /\ (export.pc = "returned" /\ export.err = NoError)
          => \A k \in 1..Len(ConsolidatedOfDate) : AcceptedInRun(ConsolidatedOfDate[k])
    /\ \A j \in 1..Len(RunAccepted) :
          /\ RunAccepted[j].body[1].Date = export.date
          /\ \E k \in 1..Len(ConsolidatedOfDate) :
                RunAccepted[j].body = <<ConsolidatedOfDate[k]>>
    /\ (export.pc = "returned" /\ export.err # NoError /\ ~FailedBeforeLoop)
          => \A k \in 1..(export.idx - 1) : AcceptedInRun(consolidated[k])

\* A second successful run of a two-record day: the sink holds a record it
\* accepted twice within one run (a retry after a lost answer) and a record
\* of the first run accepted again.
C24_Witness ==
    /\ export.pc = "returned"
    /\ export.err = NoError
    /\ export.runsLeft = 1
    /\ Len(ConsolidatedOfDate) = 2
    /\ \E i, j \in 1..Len(RunAccepted) : i < j /\ RunAccepted[i] = RunAccepted[j]
    /\ \E i \in 1..export.accepted : sink[i] = RunAccepted[1]

\* C25: every request that carries a consolidated record to the sink
\* carries, in a header, the signature createHMACSignature computes over
\* the record and the shared secret.
C25_RequestsSigned ==
    \A i \in 1..Len(netLog) :
        netLog[i].method = "POST"
            => \E h \in netLog[i].headers :
                  h[2] = createHMACSignature(netLog[i].body[1], config.SinkSecret)

\* C29: a call whose context was cancelled during a backoff wait makes no
\* further attempt and returns the context's error; and once the context
\* of an export is cancelled no further request reaches the network or the
\* sink.
C29_CancelStopsRetriesAndExport ==
    /\ (ctx.done /\ ctx.at = "backoff")
          => /\ http.pc \in {"backoff", "returned"}
             /\ Len(http.log) = ctx.attempts
             /\ http.pc = "returned" => http.err = ContextError
    /\ ctx.done => /\ Len(netLog) = ctx.sent
                   /\ Len(sink) = ctx.accepted

\* Cancelled in the backoff after the first record's failed attempt, with a
\* second record still to send: the run returned the context's error.
C29_Witness ==
    /\ ctx.done
    /\ ctx.at = "backoff"
    /\ export.pc = "returned"
    /\ export.err = ContextError
    /\ export.idx = 1
    /\ Len(consolidated) = 2
    /\ Len(http.log) = 1

\* C30: when the ads source URL or the CRM source URL is not configured,
\* every RunIngestion call fails, no call sends a request to a source, and
\* the Store stays as it was constructed.
C30_ConfigErrorBeforeAnyRequest ==
    (config.AdsAPIURL = << >> \/ config.CRMAPIURL = << >>)
        => /\ \A i \in 1..Len(runLog) :
                 /\ runLog[i].err # ""
                 /\ runLog[i].requests = << >>
                 /\ runLog[i].stored = << >>
           /\ \A p \in DOMAIN call : call[p].requests = << >>
           /\ data = << >>
           /\ DOMAIN ingestionTimes = {}
           /\ lastIngestion = 0

\* What the code keeps of it: with a source URL not configured every call
\* fails and the Store stays as it was constructed; with the ads URL not
\* configured no request is sent at all.
StoreKeptOnConfigError ==
    (config.AdsAPIURL = << >> \/ config.CRMAPIURL = << >>)
        => /\ \A i \in 1..Len(runLog) :
                 /\ runLog[i].err # ""
                 /\ runLog[i].stored = << >>
                 /\ config.AdsAPIURL = << >> => runLog[i].requests = << >>
           /\ data = << >>
           /\ DOMAIN ingestionTimes = {}
           /\ lastIngestion = 0

\* C39: GetTransformedData returns a result, possibly empty, and does not
\* fail, for every integer limit and offset, a negative offset included.
C39_NeverFailsForAnyOffset ==
    pc = "done" => ~ret.value.panic

\* C40: no input record is absorbed into a consolidated record of another
\* group: every input record has a consolidated record with its own channel
\* and its own campaign id, whatever characters the two strings contain.
C40_OnlySameGroupMerged ==
    pc = "done" =>
        \A i \in 1..Len(items) :
            \E k \in 1..Len(consolidated) :
                /\ consolidated[k].Channel = items[i].Channel
                /\ consolidated[k].CampaignID = items[i].CampaignID

\* The UTM strings of the call: those of the ad and of every opportunity.
UTMStrings ==
    {ad.UTMCampaign, ad.UTMSource, ad.UTMMedium}
    \cup UNION {{crmData[i].UTMCampaign, crmData[i].UTMSource, crmData[i].UTMMedium} :
                   i \in 1..Len(crmData)}

\* The string has no upper-case letter and no white space at either end.
IsNormalForm(s) ==
    /\ \A i \in 1..Len(s) : s[i] \notin {"B", "C", "F", "G", "S"}
    /\ s # << >> => ~IsSpace(s[1]) /\ ~IsSpace(s[Len(s)])

\* The two strings differ at most in letter case and surrounding white space.
SameUpToCaseAndSpace(s, t) == ToLower(TrimSpace(s)) = ToLower(TrimSpace(t))

\* The opportunities whose three UTM values are the ad's up to letter case
\* and surrounding white space, in batch order.
AdSameUpToCaseAndSpace ==
    SelectSeq(crmData, LAMBDA o :
        /\ SameUpToCaseAndSpace(o.UTMCampaign, ad.UTMCampaign)
        /\ SameUpToCaseAndSpace(o.UTMSource, ad.UTMSource)
        /\ SameUpToCaseAndSpace(o.UTMMedium, ad.UTMMedium))

\* C35: normalizeUTM yields the lower-cased, trimmed string, normalizing
\* twice equals normalizing once, the empty string is mapped to itself, and
\* the opportunities whose three UTM values differ from the ad's only in
\* letter case or surrounding white space are what the matcher returns for
\* the ad, at the exact tier.
C35_MatchOnNormalizedForm ==
    /\ \A utm \in UTMStrings :
          /\ IsNormalForm(normalizeUTM(utm))
          /\ SameUpToCaseAndSpace(normalizeUTM(utm), utm)
          /\ normalizeUTM(normalizeUTM(utm)) = normalizeUTM(utm)
    /\ normalizeUTM(<< >>) = << >>
    /\ (pc = "matched" /\ AdSameUpToCaseAndSpace # << >>)
          => matching = AdSameUpToCaseAndSpace

\* The ad ("B ", "g", "c") is matched to an opportunity (" B", "G ", "C"),
\* none of whose three strings equals the ad's.
C35_Witness ==
    /\ pc = "matched"
    /\ \E i \in 1..Len(matching) :
          /\ matching[i].UTMCampaign # ad.UTMCampaign
          /\ matching[i].UTMSource # ad.UTMSource
          /\ matching[i].UTMMedium # ad.UTMMedium
          /\ matching[i].UTMCampaign = <<" ", "B">>
    /\ matching = AdSameUpToCaseAndSpace

\* C31: the result of GetFunnelMetrics is the result of the date-range query
\* with no filters and the same limit and offset, and the call would return
\* that same result for every other utmCampaign value.
C31_FunnelIgnoresCampaign ==
    pc = "done" =>
        /\ ret.value = Paginate(FilterData(data, query.from, query.to, NoFilters),
                                query.limit, query.offset)
        /\ \A other \in FunnelCampaigns :
              GetFunnelMetricsOf(data, query.from, query.to, other,
                                 query.limit, query.offset) = ret.value

\* A call with the utm_campaign "b" has returned two records, of campaign
\* ids C1 and C2, neither of which is "b".
C31_Witness ==
    /\ pc = "done"
    /\ ret.utmCampaign = <<"b">>
    /\ ~ret.value.panic
    /\ Len(ret.value.value) = 2
    /\ ret.value.value[1].CampaignID = <<"C", "1">>
    /\ ret.value.value[2].CampaignID = <<"C", "2">>

\* The Store as the last returned RunIngestion call left it, or as it was
\* constructed when none has returned.
StoreAfterRun(i) ==
    IF i = 0 THEN [data |-> << >>, times |-> [k \in {} |-> 0], last |-> 0]
    ELSE [data |-> runLog[i].stored, times |-> runLog[i].times, last |-> runLog[i].last]

StoreNow == [data |-> data, times |-> ingestionTimes, last |-> lastIngestion]

\* C37: a RunIngestion call that returned an error (invalid since date, ads
\* fetch or CRM fetch failed) left the records, the ingestion markers and
\* the last ingestion time as the call before it had left them; and a call
\* that has failed, or has not yet finished both fetches and the transform,
\* has written nothing to the Store.
C37_FailedRunKeepsStore ==
    /\ \A i \in 1..Len(runLog) :
          runLog[i].err # "" => StoreAfterRun(i) = StoreAfterRun(i - 1)
    /\ \A p \in DOMAIN call :
          (\/ call[p].err # ""
           \/ call[p].pc \in {"start", "fetch_ads", "fetch_crm", "transform", "store_lock"})
              => StoreNow = StoreAfterRun(Len(runLog))

\* A first run stored records; the second run reached the CRM source, whose
\* fetch failed, and the Store is as the first run left it.
C37_Witness ==
    /\ Len(runLog) = 2
    /\ runLog[1].err = ""
    /\ runLog[1].stored # << >>
    /\ runLog[2].err = "failed to fetch crm data"
    /\ runLog[2].requests = <<"ads", "crm">>
    /\ runLog[2].stored = runLog[1].stored
    /\ StoreNow = StoreAfterRun(1)

\* C38: a value GetLastIngestionTime returns is greater than or equal to the
\* value the GetLastIngestionTime before it returned, whatever the
\* interleaving of the concurrent RunIngestion calls.
C38_LastIngestionNeverBackwards ==
    ret.op = "GetLastIngestionTime" => ret.value >= ret.prev

\* s is a prefix of t, record for record.
IsPrefix(s, t) == Len(s) <= Len(t) /\ \A i \in 1..Len(s) : t[i] = s[i]

\* C32: no step of the service (ingestion, query, consolidation, export)
\* mutates or removes a stored record: the Store's record sequence before a
\* step is a prefix of its sequence after it, every field unchanged.
C32_StoredNeverMutated == [][IsPrefix(data, data')]_vars

\* An ingestion has appended to the Store after the read of an export that
\* has returned success with consolidated records the sink saw, and a query
\* has returned: the record the Store started with is still its first.
C32_Witness ==
    /\ Len(data) > export.read
    /\ export.read >= 1
    /\ export.pc = "returned"
    /\ export.err = NoError
    /\ Len(consolidated) >= 1
    /\ Len(RunRequests) >= 1
    /\ ret.op = "GetTransformedData"
    /\ data[1] = DatedRecord(Day1, <<"g">>, <<"C", "1">>, 12, 7)

\* The consolidation of the records of the export's date that the Store held
\* at the run's read.
ConsolidatedAtRead ==
    consolidateDataByChannelAndCampaign(
        ExportQuery(SubSeq(data, 1, export.read), ParseDate(export.date).t).value)

\* C33: the requests of an export run carry, one per record and in order,
\* the consolidation of the records the Store held at the run's one read,
\* whatever a concurrent ingestion appended after it; a run that returns
\* success has sent all of them.
C33_SendsWhatWasRead ==
    (export.pc \in {"loop", "posting", "returned"} /\ ~FailedBeforeLoop) =>
        /\ Len(RunRequests) <= Len(ConsolidatedAtRead)
        /\ \A j \in 1..Len(RunRequests) : RunRequests[j].body = <<ConsolidatedAtRead[j]>>
        /\ (export.pc = "returned" /\ export.err = NoError)
              => Len(RunRequests) = Len(ConsolidatedAtRead)

\* Between the read of a run and its first send the ingestion call has
\* appended a record of the export's day and still holds the Store's lock:
\* the consolidation of the Store now differs from the one being sent.
C33_Witness ==
    /\ export.pc = "posting"
    /\ RunRequests = << >>
    /\ http.pc = "attempt"
    /\ mu.writer = "w1"
    /\ call["w1"].pc = "store_mark"
    /\ Len(data) > export.read
    /\ ConsolidatedOfDate # ConsolidatedAtRead

C36_EveryCallReturns ==
    /\ (http.pc \in {"attempt", "backoff"}) ~> (http.pc = "returned")
    /\ <>(call["w1"].pc = "done")
    /\ <>(export.pc = "returned")

\* Both calls have returned, the export with success after a retry.
C36_Witness ==
    /\ call["w1"].pc = "done"
    /\ export.pc = "returned"
    /\ export.err = NoError
    /\ Len(consolidated) = 1
    /\ Len(netLog) = 2

====
